---- MODULE Spec2Model ----
(***************************************************************************)
(* Portfolio tracker: the App component (state, effects and handlers), the *)
(* oracle-backed fetch operations it calls and the persisted portfolio     *)
(* collection it reads through a snapshot listener and writes through      *)
(* addDoc / updateDoc / deleteDoc / writeBatch.                            *)
(*                                                                         *)
(* Time is counted in seconds (Date.now() / 1000).  A numeric field that   *)
(* is null or absent is NULL, a string field that is null is NoStr.        *)
(***************************************************************************)
EXTENDS Integers, Sequences, FiniteSets, TLC

\* ---------------------------------------------------------------- bounds
MaxSessions == 2
MaxDocs == 3
MaxAdds == 2
MaxManual == 1
MaxSyncs == 1
MaxItems == 2
MaxBigTicks == 1
MaxCashCalls == 1
MaxCash == 150
MaxPageCalls == 2
MaxClockTicks == 4
MaxPairs == 3
MaxSubmits == 1
MaxRemoves == 2

\* ------------------------------------------------------ program constants
TwentyFourHours == 86400
StaggerDelay == 1
SixtySeconds == 60

\* ------------------------------------------------------------ value sets
NULL == -1
NoStr == "null"
\* The clock at construction, and the step by which it advances between
\* sessions.
StartTime == 12 * TwentyFourHours
HalfDay == TwentyFourHours \div 2
HalfMinute == SixtySeconds \div 2
TickSteps == {1, HalfMinute, HalfDay}

Tickers == {"AAA", "BBB"}
Exchanges == {"USA", "Canada"}
Currencies == {"USD", "CAD"}
Accounts == {"acc1", "acc2"}
Amounts == {50, 100}

NumMetricFields == {"peRatio", "forwardPeRatio", "fiftyTwoWeekLow",
                    "fiftyTwoWeekHigh", "dividendYield", "yearlyDividend"}
StrMetricFields == {"marketCap"}
MetricFields == NumMetricFields \cup StrMetricFields

\* Parsed results of fetchStockDetailsForUpdate: every metric present, some
\* metrics reported as N/A, and nothing parsable at all.
DetailsAll ==
  [peRatio |-> 30, forwardPeRatio |-> 25, fiftyTwoWeekLow |-> 5,
   fiftyTwoWeekHigh |-> 40, marketCap |-> "2T", dividendYield |-> 2,
   yearlyDividend |-> 1, priceHistory |-> <<[date |-> "d2", close |-> 12]>>]
DetailsPartial ==
  [peRatio |-> NULL, forwardPeRatio |-> 26, fiftyTwoWeekLow |-> 5,
   fiftyTwoWeekHigh |-> 40, marketCap |-> NoStr, dividendYield |-> NULL,
   yearlyDividend |-> 1, priceHistory |-> <<[date |-> "d2", close |-> 12]>>]
DetailsNone ==
  [peRatio |-> NULL, forwardPeRatio |-> NULL, fiftyTwoWeekLow |-> NULL,
   fiftyTwoWeekHigh |-> NULL, marketCap |-> NoStr, dividendYield |-> NULL,
   yearlyDividend |-> NULL, priceHistory |-> << >>]
DetailsResponses == {DetailsAll, DetailsPartial, DetailsNone}

\* Parsed results of fetchFullStockData that pass the essential-field gate.
FullData(t) ==
  [ticker |-> t, name |-> "Name", currentPrice |-> 10, yearlyDividend |-> 1,
   peRatio |-> 20, forwardPeRatio |-> 18, fiftyTwoWeekLow |-> 4,
   fiftyTwoWeekHigh |-> 30, companyProfile |-> "profile", marketCap |-> "1T",
   dividendYield |-> 3, priceHistory |-> <<[date |-> "d1", close |-> 9]>>]
FullResponses == {FullData(t) : t \in Tickers}

\* Items of a batch price response, "TICKER:::EXCHANGE:::PRICE"; a price of
\* NULL is a text parseFloat turns into NaN.
BatchItems ==
  {[ticker |-> "AAA", exchange |-> "USA", price |-> 15],
   [ticker |-> "AAA", exchange |-> "USA", price |-> NULL],
   [ticker |-> "bbb", exchange |-> "USA", price |-> 16],
   [ticker |-> "ZZZ", exchange |-> "USA", price |-> 18]}

\* A holding persisted by the previous version of addAsset, which stored
\* neither the cached fields nor the two timestamps.
LegacyStock ==
  [type |-> "Stock", accountId |-> "acc1", ticker |-> "AAA", name |-> "Name",
   shares |-> 1, avgCost |-> 8, exchange |-> "USA", currentPrice |-> 10,
   yearlyDividend |-> 1, peRatio |-> 20, forwardPeRatio |-> 18,
   fiftyTwoWeekLow |-> 4, fiftyTwoWeekHigh |-> 30,
   companyProfile |-> NoStr, marketCap |-> NoStr, dividendYield |-> NULL,
   priceHistory |-> << >>, lastPriceUpdate |-> NULL,
   lastMetricsUpdate |-> NULL]

VARIABLES
  user,            \* App state `user`: TRUE when a user is signed in
  session,         \* number of sign-ins so far
  portfolio,       \* App state `portfolio`: the last snapshot delivered
  portfolioLoaded, \* the ref portfolioLoaded.current
  isLoading,       \* App state `isLoading`
  isSubmitting,    \* App state `isSubmitting`
  error,           \* App state `error` (NoStr when null)
  db,              \* persisted portfolio collection: doc id -> doc data
  now,             \* Date.now(), in seconds
  adds,            \* addAsset calls in flight
  cashCalls,       \* addCash calls in flight
  refreshes,       \* refreshAssetDetails calls in flight
  sweeps,          \* checkAndRefreshDetails run of each session
  syncs,           \* interval callbacks (price syncs) in flight
  deposited,       \* history: sum of the completed deposits per account, currency
  lastEvent,       \* history: the response of the last committed price sync
  cadToUsdRate,    \* App state `cadToUsdRate` (NULL when null)
  rateCalls,       \* getRate calls in flight
  response,        \* the text getGeminiTextResponse returned to a fetch operation
  parsed,          \* the operation that parsed it and the value it returned
  isApiKeyConfigured, \* the module constant isApiKeyConfigured
  priceClock,      \* the interval of the price effect, and the history of its fetches
  tickerPage,      \* App state `route` and the TickerPage it renders
  currentUser,     \* auth.currentUser: TRUE when the auth object holds a user
  isAuthLoading,   \* App state `isAuthLoading`
  subscriptions,   \* the listeners of the main effect that are subscribed
  accounts,        \* App state `accounts`: the last snapshot, sorted by name
  userProfile,     \* App state `userProfile`
  isProfileModalOpen, \* App state `isProfileModalOpen`
  cloud,           \* persisted accounts collection and user document
  submits,         \* createAccount and updateUserProfile calls in flight
  removes,         \* removeAsset calls in flight
  mounted          \* TRUE while the root renders App: FALSE once a render has thrown

vars == <<user, session, portfolio, portfolioLoaded, isLoading, isSubmitting,
          error, db, now, adds, cashCalls, refreshes, sweeps, syncs,
          deposited, lastEvent, cadToUsdRate, rateCalls, response, parsed,
          isApiKeyConfigured, priceClock, tickerPage, currentUser,
          isAuthLoading, subscriptions, accounts, userProfile,
          isProfileModalOpen, cloud, submits, removes, mounted>>

\* ---------------------------------------------------------------- helpers
RemoveAt(s, i) == [j \in 1..(Len(s) - 1) |-> IF j < i THEN s[j] ELSE s[j + 1]]

IsStock(a) == a.type = "Stock"
IsCash(a) == a.type = "Cash"

\* querySnapshot.docs.map(doc => ({ id: doc.id, ...doc.data() })), in the
\* order of the document ids.
RECURSIVE SnapshotFrom(_, _)
SnapshotFrom(d, i) ==
  IF i > MaxDocs + 1 THEN << >>
  ELSE IF i \in DOMAIN d
       THEN <<[id |-> i] @@ d[i]>> \o SnapshotFrom(d, i + 1)
       ELSE SnapshotFrom(d, i + 1)
SnapshotOf(d) == SnapshotFrom(d, 1)

\* Array.prototype.find, given the set of the indices whose element satisfies
\* the predicate: the first of them, 0 if there is none.
FindIndex(matching) ==
  IF matching = {} THEN 0
  ELSE CHOOSE i \in matching : \A j \in matching : i <= j

\* String.prototype.toUpperCase on the ticker texts of the model.
UpperTable == [aaa |-> "AAA", bbb |-> "BBB", zzz |-> "ZZZ"]
ToUpperCase(s) == IF s \in DOMAIN UpperTable THEN UpperTable[s] ELSE s

FreeIds == (1..MaxDocs) \ DOMAIN db
FirstFreeId == CHOOSE i \in FreeIds : \A j \in FreeIds : i <= j

NoSweep == [pc |-> "idle", queue |-> << >>, idx |-> 0, input |-> << >>,
            startedAt |-> NULL, attempted |-> << >>, failed |-> FALSE,
            lastDone |-> NULL, timerAt |-> NULL]

\* No interval is set, and no stock is on display.
NoClock == [armedAt |-> NULL, stockAssets |-> << >>]

\* The hash route of the portfolio view, and the state of a TickerPage that
\* is not mounted.
NoRoute == [ticker |-> NoStr, exchange |-> NoStr]
NoAsset == [type |-> "none"]
NoDetails == [of |-> NoRoute]
NoPage == [route |-> NoRoute, mounted |-> FALSE, listeners |-> {},
           asset |-> NoAsset, details |-> NoDetails,
           isPortfolioAsset |-> FALSE, isLoading |-> TRUE, error |-> NoStr,
           calls |-> << >>]

\* userProfile before the first snapshot of the user document (null), and a
\* user document that was never written.
NoUserProfile == [null |-> TRUE]
NoUserDoc == [exists |-> FALSE, estimatedEarnings |-> NULL]

\* The accounts the holdings of the persisted portfolios belong to.
StoredAccounts ==
  ("acc1" :> [name |-> "A1", type |-> "TFSA"])
  @@ ("acc2" :> [name |-> "A2", type |-> "RRSP"])

\* The three listeners the main effect subscribes.
Listeners == {"portfolio", "accounts", "user profile"}

\* The state after construction, over a persisted portfolio d left by
\* earlier sessions, with the API key configured or not, and with the auth
\* object holding the user of an earlier session (cu) or nobody.
InitAuth(d, key, cu) ==
  /\ currentUser = cu
  /\ isAuthLoading = key
  /\ subscriptions = {}
  /\ accounts = << >>
  /\ userProfile = NoUserProfile
  /\ isProfileModalOpen = FALSE
  /\ cloud = [accounts |-> StoredAccounts, profile |-> NoUserDoc]
  /\ submits = << >>
  /\ removes = << >>
  /\ mounted = TRUE
  /\ isApiKeyConfigured = key
  /\ priceClock = NoClock
  /\ tickerPage = NoPage
  /\ user = FALSE
  /\ session = 0
  /\ portfolio = << >>
  /\ portfolioLoaded = FALSE
  /\ isLoading = FALSE
  /\ isSubmitting = FALSE
  /\ error = NoStr
  /\ db = d
  /\ now = StartTime
  /\ adds = << >>
  /\ cashCalls = << >>
  /\ refreshes = << >>
  /\ sweeps = [s \in 1..MaxSessions |-> NoSweep]
  /\ syncs = << >>
  /\ deposited = [k \in Accounts \X Currencies |-> 0]
  /\ lastEvent = [op |-> "none"]
  /\ cadToUsdRate = NULL
  /\ rateCalls = 0
  /\ response = << >>
  /\ parsed = [op |-> "none"]

InitWith(d, key) == InitAuth(d, key, TRUE)
InitOver(d) == InitWith(d, TRUE)

Init ==
  \E d \in {<< >>, (1 :> LegacyStock)}, key \in BOOLEAN, cu \in BOOLEAN :
     InitAuth(d, key, cu)

\* ------------------------------------------------------------------ time
SweepTimerPending ==
  \E s \in 1..MaxSessions :
     sweeps[s].pc = "pausing" /\ now < sweeps[s].timerAt + StaggerDelay

\* Time passes: by half a day, by a second while a sweep waits for its
\* timer, or by half a minute while the price interval is armed.
Tick(d) ==
  /\ \/ d = HalfDay /\ (now - StartTime) \div HalfDay < MaxBigTicks
     \/ d = 1 /\ SweepTimerPending
     \/ /\ d = HalfMinute
        /\ priceClock.armedAt # NULL
        /\ (now - StartTime) \div HalfMinute < MaxClockTicks
  /\ now' = now + d
  /\ UNCHANGED <<mounted, currentUser, isAuthLoading, subscriptions, accounts,
                 userProfile, isProfileModalOpen, cloud, submits, removes,
                 isApiKeyConfigured, priceClock, tickerPage,
                 response, parsed, cadToUsdRate, rateCalls,
                 user, session, portfolio, portfolioLoaded, isLoading,
                 isSubmitting, error, db, adds, cashCalls, refreshes, sweeps,
                 syncs, deposited, lastEvent>>

\* ---------------------------------------------------------------- render
\* The render of App with the state (key, loading, u), the route r, the
\* portfolio pf and the accounts accs throws.  The portfolio view renders,
\* for every account, <AssetList assets={accountAssets} removeAsset={...}
\* refreshAssetDetails={...} /> with accountAssets = portfolio.filter(asset
\* => asset.accountId === account.id), and passes no `accounts`; AssetList
\* returns early for an empty list and calls accounts.find(...) for the
\* first row of any other: a TypeError, since accounts is undefined.
RenderThrows(key, loading, u, r, pf, accs) ==
  /\ key /\ ~loading /\ u /\ r = NoRoute
  /\ \E k \in 1..Len(accs) :
        Len(SelectSeq(pf, LAMBDA a : a.accountId = accs[k].id)) > 0

\* A state setter of App called with the value v where the state is x: it
\* sets nothing once App is unmounted.
SetState(x, v) == IF mounted THEN v ELSE x

\* The render that follows a change of state, where the price effect of a
\* render that commits leaves the interval clock: a render that throws
\* unmounts App, and the cleanups of its effects run (the listeners of the
\* main effect are unsubscribed, the auth listener is removed, the interval
\* is cleared).
AfterRender(throws, clock) ==
  /\ mounted' = ~throws
  /\ subscriptions' = IF throws THEN {} ELSE subscriptions
  /\ priceClock' = IF throws THEN NoClock ELSE clock

\* ------------------------------------------------------------ ticker page
\* The ticker routes a hash can name: AAA is held in the stored portfolios,
\* ZZZ is not.
Routes == {[ticker |-> "AAA", exchange |-> "USA"],
           [ticker |-> "ZZZ", exchange |-> "USA"]}

\* A cleanup that leaves the listener subscribed.
UnsubscribeNone(listeners, r) == listeners

\* return () => unsubscribe(): the cleanup of the effect run for route r.
Unsubscribe(listeners, r) ==
  {l \in listeners : ~(l.ticker = r.ticker /\ l.exchange = r.exchange)}

\* loadLiveTickerData() of the render with the props r, up to its await.
LiveCall(r) == [ticker |-> r.ticker, exchange |-> r.exchange, alive |-> TRUE]

\* The effect of TickerPage for the props r, after the cleanup of its
\* previous run (if the page was mounted): the state is reset; with a
\* current user of the auth object (cu) a listener on the holdings of r is
\* subscribed, without one the live data are loaded and nothing is
\* subscribed.
TickerEffect(page, r, cu) ==
  LET cleaned == IF page.mounted THEN Unsubscribe(page.listeners, page.route)
                 ELSE page.listeners
  IN [page EXCEPT !.route = r, !.mounted = TRUE,
                  !.listeners =
                     IF cu
                     THEN cleaned \cup {[ticker |-> r.ticker,
                                         exchange |-> r.exchange,
                                         seen |-> [type |-> "unsent"]]}
                     ELSE cleaned,
                  !.calls = IF cu THEN @ ELSE Append(@, LiveCall(r)),
                  !.asset = NoAsset, !.details = NoDetails,
                  !.isLoading = TRUE, !.error = NoStr]

\* TickerPage is unmounted: its effect is cleaned up, its state is gone and
\* the calls it has in flight will set nothing.
Unmount(page, r) ==
  [page EXCEPT !.route = r, !.mounted = FALSE,
               !.listeners = IF page.mounted THEN Unsubscribe(@, page.route) ELSE @,
               !.asset = NoAsset, !.details = NoDetails,
               !.isPortfolioAsset = FALSE, !.isLoading = TRUE,
               !.error = NoStr,
               !.calls = [i \in 1..Len(page.calls) |->
                            [page.calls[i] EXCEPT !.alive = FALSE]]]

\* hashchange: App renders the TickerPage of the route when a user is signed
\* in and the route names a ticker, the portfolio view otherwise.
Navigate(r) ==
  /\ mounted
  /\ r # tickerPage.route
  /\ (user /\ r # NoRoute /\ ~currentUser) => Len(tickerPage.calls) < MaxPageCalls
  /\ tickerPage' = IF user /\ r # NoRoute
                   THEN TickerEffect(tickerPage, r, currentUser)
                   ELSE Unmount(tickerPage, r)
  /\ AfterRender(RenderThrows(isApiKeyConfigured, isAuthLoading, user, r,
                              portfolio, accounts),
                 priceClock)
  /\ UNCHANGED <<currentUser, isAuthLoading, accounts,
                 userProfile, isProfileModalOpen, cloud, submits, removes,
                 isApiKeyConfigured, response, parsed,
                 user, session, portfolio, portfolioLoaded, isLoading,
                 isSubmitting, error, db, now, adds, cashCalls, refreshes,
                 sweeps, syncs, deposited, lastEvent, cadToUsdRate, rateCalls>>

\* The result of the listener's query: snapshot.docs[0] with its id, or
\* nothing when the snapshot is empty.
PageQuery(d, l) ==
  LET ids == {i \in DOMAIN d : /\ IsStock(d[i])
                                /\ d[i].ticker = l.ticker
                                /\ d[i].exchange = l.exchange}
  IN IF ids = {} THEN NoAsset
     ELSE LET i == CHOOSE x \in ids : \A y \in ids : x <= y IN [id |-> i] @@ d[i]

\* The listener l delivers a snapshot: its first, or one for a changed
\* result.
PageSnapshot(l) ==
  /\ l \in tickerPage.listeners
  /\ LET result == PageQuery(db, l)
         listeners == (tickerPage.listeners \ {l}) \cup {[l EXCEPT !.seen = result]}
     IN
     /\ l.seen # result
     /\ IF ~tickerPage.mounted
        THEN tickerPage' = [tickerPage EXCEPT !.listeners = listeners]
        ELSE IF result # NoAsset
        THEN tickerPage' = [tickerPage EXCEPT !.listeners = listeners,
                                              !.isPortfolioAsset = TRUE,
                                              !.asset = result,
                                              !.isLoading = FALSE]
        ELSE /\ Len(tickerPage.calls) < MaxPageCalls
             /\ tickerPage' = [tickerPage EXCEPT !.listeners = listeners,
                                                 !.isPortfolioAsset = FALSE,
                                                 !.calls = Append(@, LiveCall(l))]
  /\ UNCHANGED <<mounted, currentUser, isAuthLoading, subscriptions, accounts,
                 userProfile, isProfileModalOpen, cloud, submits, removes,
                 isApiKeyConfigured, priceClock, response, parsed,
                 user, session, portfolio, portfolioLoaded, isLoading,
                 isSubmitting, error, db, now, adds, cashCalls, refreshes,
                 sweeps, syncs, deposited, lastEvent, cadToUsdRate, rateCalls>>

\* The listener l fails: the error is shown and the live data are loaded;
\* a failed listener delivers nothing more.
PageSnapshotError(l) ==
  /\ l \in tickerPage.listeners
  /\ IF ~tickerPage.mounted
     THEN tickerPage' = [tickerPage EXCEPT !.listeners = @ \ {l}]
     ELSE /\ Len(tickerPage.calls) < MaxPageCalls
          /\ tickerPage' = [tickerPage EXCEPT
                               !.listeners = @ \ {l},
                               !.error = "Failed to check portfolio status.",
                               !.calls = Append(@, LiveCall(l))]
  /\ UNCHANGED <<mounted, currentUser, isAuthLoading, subscriptions, accounts,
                 userProfile, isProfileModalOpen, cloud, submits, removes,
                 isApiKeyConfigured, priceClock, response, parsed,
                 user, session, portfolio, portfolioLoaded, isLoading,
                 isSubmitting, error, db, now, adds, cashCalls, refreshes,
                 sweeps, syncs, deposited, lastEvent, cadToUsdRate, rateCalls>>

\* throw new Error(`Failed to fetch details for ${ticker}. The API might be
\* temporarily unavailable or the format changed.`)
FetchDetailsFailure ==
  ("AAA" :> "Failed to fetch details for AAA. The API might be temporarily unavailable or the format changed.")
  @@ ("ZZZ" :> "Failed to fetch details for ZZZ. The API might be temporarily unavailable or the format changed.")

\* fetchTickerDetails settles for the call i of loadLiveTickerData: the
\* details, or the message of the failure, are set, and the loading flag is
\* cleared, in the page the call was started in if it is still mounted.
DetailsResponse(i, ok) ==
  /\ i \in 1..Len(tickerPage.calls)
  /\ LET c == tickerPage.calls[i]
         calls == RemoveAt(tickerPage.calls, i)
     IN
     IF ~c.alive
     THEN tickerPage' = [tickerPage EXCEPT !.calls = calls]
     ELSE IF ok
     THEN tickerPage' = [tickerPage EXCEPT
                           !.calls = calls,
                           !.details = [of |-> [ticker |-> c.ticker,
                                                exchange |-> c.exchange]],
                           !.isLoading = FALSE]
     ELSE tickerPage' = [tickerPage EXCEPT
                           !.calls = calls,
                           !.error = FetchDetailsFailure[c.ticker],
                           !.isLoading = FALSE]
  /\ UNCHANGED <<mounted, currentUser, isAuthLoading, subscriptions, accounts,
                 userProfile, isProfileModalOpen, cloud, submits, removes,
                 isApiKeyConfigured, priceClock, response, parsed,
                 user, session, portfolio, portfolioLoaded, isLoading,
                 isSubmitting, error, db, now, adds, cashCalls, refreshes,
                 sweeps, syncs, deposited, lastEvent, cadToUsdRate, rateCalls>>

\* An auth effect that registers its listener whatever the configuration.
AuthListenerAlways == TRUE

\* if (!isApiKeyConfigured) return; const unsubscribe = onAuthStateChanged(...)
\* and the cleanup of the effect, run when App is unmounted.
AuthListenerRegistered == mounted /\ isApiKeyConfigured

\* What App renders; nothing once a render has thrown (App has no error
\* boundary, and the root unmounts the tree).
Screen ==
  IF ~mounted THEN "Nothing"
  ELSE IF ~isApiKeyConfigured THEN "Configuration Error"
  ELSE IF isAuthLoading THEN "Spinner"
  ELSE IF ~user THEN "Login"
  ELSE IF tickerPage.route # NoRoute THEN "TickerPage"
  ELSE "Portfolio"

\* The portfolio view: renderContent returns <main> with AccountManager,
\* AddAssetForm and the asset lists unless the route is a ticker route.
\* accounts.map(account => portfolio.filter(asset =>
\*   asset.accountId === account.id)): a holding has a row, with its refresh
\* and remove buttons, in the AssetList of its account, if that AssetList
\* renders.
AccountIds == {accounts[k].id : k \in 1..Len(accounts)}
RowRendered(i) ==
  /\ Screen = "Portfolio"
  /\ i \in 1..Len(portfolio)
  /\ portfolio[i].accountId \in AccountIds
  /\ ~RenderThrows(isApiKeyConfigured, isAuthLoading, user, tickerPage.route,
                   portfolio, accounts)

\* The price effect, run with the render of every change of user or
\* portfolio: the cleanup of its previous run clears the interval, and a new
\* interval is set at time t if a user is signed in and the portfolio holds
\* a stock.
PriceEffect(u, pf, t) ==
  LET stockAssets == SelectSeq(pf, IsStock) IN
  IF ~u \/ Len(pf) = 0 \/ Len(stockAssets) = 0
  THEN NoClock
  ELSE [armedAt |-> t, stockAssets |-> stockAssets]

\* ------------------------------------------------- authentication effects
\* The Login screen signs a user in at the auth object.
AuthSignIn ==
  /\ Screen = "Login"
  /\ ~currentUser
  /\ session < MaxSessions
  /\ currentUser' = TRUE
  /\ UNCHANGED <<mounted, isAuthLoading, subscriptions, accounts, userProfile,
                 isProfileModalOpen, cloud, submits, removes,
                 isApiKeyConfigured, priceClock, tickerPage, response,
                 parsed, cadToUsdRate, rateCalls, user, session, portfolio,
                 portfolioLoaded, isLoading, isSubmitting, error, db, now,
                 adds, cashCalls, refreshes, sweeps, syncs, deposited,
                 lastEvent>>

\* handleSignOut of the Header: signOut(auth) clears the user of the auth
\* object; the auth callback reaches App afterwards.
AuthSignOut ==
  /\ Screen \in {"Portfolio", "TickerPage"}
  /\ currentUser
  /\ currentUser' = FALSE
  /\ UNCHANGED <<mounted, isAuthLoading, subscriptions, accounts, userProfile,
                 isProfileModalOpen, cloud, submits, removes,
                 isApiKeyConfigured, priceClock, tickerPage, response,
                 parsed, cadToUsdRate, rateCalls, user, session, portfolio,
                 portfolioLoaded, isLoading, isSubmitting, error, db, now,
                 adds, cashCalls, refreshes, sweeps, syncs, deposited,
                 lastEvent>>

\* The first call of the auth callback finds nobody signed in: the spinner
\* gives way to the Login screen.
AuthReady ==
  /\ AuthListenerRegistered
  /\ isAuthLoading
  /\ ~currentUser
  /\ isAuthLoading' = FALSE
  /\ UNCHANGED <<mounted, currentUser, subscriptions, accounts, userProfile,
                 isProfileModalOpen, cloud, submits, removes,
                 isApiKeyConfigured, priceClock, tickerPage, response,
                 parsed, cadToUsdRate, rateCalls, user, session, portfolio,
                 portfolioLoaded, isLoading, isSubmitting, error, db, now,
                 adds, cashCalls, refreshes, sweeps, syncs, deposited,
                 lastEvent>>

\* onAuthStateChanged delivers a user; the main effect requests the exchange
\* rate and subscribes its three listeners.
SignIn ==
  /\ AuthListenerRegistered
  /\ currentUser
  /\ ~user
  /\ session < MaxSessions
  /\ user' = TRUE
  /\ isAuthLoading' = FALSE
  /\ session' = session + 1
  /\ rateCalls' = rateCalls + 1
  /\ subscriptions' = Listeners
  /\ tickerPage' = IF tickerPage.route # NoRoute
                   THEN TickerEffect(tickerPage, tickerPage.route, TRUE)
                   ELSE tickerPage
  /\ priceClock' = PriceEffect(TRUE, portfolio, now)
  /\ UNCHANGED <<mounted, currentUser, accounts, userProfile, isProfileModalOpen,
                 cloud, submits, removes, isApiKeyConfigured,
                 response, parsed, cadToUsdRate,
                 portfolio, portfolioLoaded, isLoading, isSubmitting, error,
                 db, now, adds, cashCalls, refreshes, sweeps, syncs,
                 deposited, lastEvent>>

\* onAuthStateChanged delivers null; the main effect's cleanup unsubscribes
\* the three listeners and the effect body clears the state.
SignOut ==
  /\ AuthListenerRegistered
  /\ user
  /\ ~currentUser
  /\ user' = FALSE
  /\ isAuthLoading' = FALSE
  /\ subscriptions' = {}
  /\ portfolio' = << >>
  /\ accounts' = << >>
  /\ userProfile' = NoUserProfile
  /\ portfolioLoaded' = FALSE
  /\ cadToUsdRate' = NULL
  /\ tickerPage' = IF tickerPage.mounted
                   THEN Unmount(tickerPage, tickerPage.route)
                   ELSE tickerPage
  /\ priceClock' = PriceEffect(FALSE, << >>, now)
  /\ UNCHANGED <<mounted, currentUser, isProfileModalOpen, cloud, submits, removes,
                 isApiKeyConfigured,
                 response, parsed, rateCalls,
                 session, isLoading, isSubmitting, error, db, now, adds,
                 cashCalls, refreshes, sweeps, syncs, deposited, lastEvent>>

\* ------------------------------------------------------- metrics refresh
\* The call refreshAssetDetails(asset) up to its first await.
RefreshCall(asset, origin, t) ==
  [id |-> asset.id, ticker |-> asset.ticker, exchange |-> asset.exchange,
   origin |-> origin, pc |-> "fetching", details |-> DetailsNone,
   issuedAt |-> t, writeAt |-> NULL]

\* updateDoc(assetDocRef, { ...details, lastMetricsUpdate: Date.now() })
RefreshUpdate(doc, details, t) ==
  [doc EXCEPT !.peRatio = details.peRatio,
              !.forwardPeRatio = details.forwardPeRatio,
              !.fiftyTwoWeekLow = details.fiftyTwoWeekLow,
              !.fiftyTwoWeekHigh = details.fiftyTwoWeekHigh,
              !.marketCap = details.marketCap,
              !.dividendYield = details.dividendYield,
              !.yearlyDividend = details.yearlyDividend,
              !.priceHistory = details.priceHistory,
              !.lastMetricsUpdate = t]

\* The filter with <= in place of <: it also takes a holding refreshed
\* exactly 24 hours ago.
IsStaleInclusive(asset, t) ==
  \/ asset.lastMetricsUpdate = NULL
  \/ asset.lastMetricsUpdate = 0
  \/ asset.lastMetricsUpdate <= t - TwentyFourHours

\* const assetsToUpdate = assets.filter(asset => !asset.lastMetricsUpdate ||
\*     asset.lastMetricsUpdate < twentyFourHoursAgo)
IsStale(asset, t) ==
  \/ asset.lastMetricsUpdate = NULL
  \/ asset.lastMetricsUpdate = 0
  \/ asset.lastMetricsUpdate < t - TwentyFourHours
AssetsToUpdate(assets, t) == SelectSeq(assets, LAMBDA a : IsStale(a, t))

\* The positions of the queue whose refresh is called when the loop of
\* checkAndRefreshDetails reaches position idx: the loop awaits each call.
SweepCalls(queue, idx) == <<idx>>

SweepIssue(queue, idx, s, t) ==
  LET ps == SweepCalls(queue, idx) IN
  [k \in 1..Len(ps) |-> RefreshCall(queue[ps[k]], s, t)]

\* checkAndRefreshDetails(assets) up to its first await.
SweepStart(assets, s, t) ==
  LET q == AssetsToUpdate(assets, t) IN
  IF Len(q) = 0
  THEN [NoSweep EXCEPT !.pc = "done", !.input = assets, !.startedAt = t]
  ELSE [NoSweep EXCEPT !.pc = "calling", !.queue = q, !.idx = 1,
                       !.input = assets, !.startedAt = t,
                       !.attempted = <<q[1].id>>]

\* The loop with its try/catch around the whole loop: a failed call ends the
\* sweep.
SweepAfterCallAbort(sw, failed, t) ==
  IF failed
  THEN [sw EXCEPT !.pc = "done", !.lastDone = t, !.failed = TRUE]
  ELSE [sw EXCEPT !.pc = "pausing", !.timerAt = t, !.lastDone = t]

\* The continuation of the sweep after `await refreshAssetDetails(asset)`:
\* the 1-second timer is armed.
SweepAfterCall(sw, failed, t) ==
  [sw EXCEPT !.pc = "pausing", !.timerAt = t, !.lastDone = t,
             !.failed = (@ \/ failed)]

SweepsAfter(origin, failed, t) ==
  IF origin = 0 THEN sweeps
  ELSE [sweeps EXCEPT ![origin] = SweepAfterCall(@, failed, t)]

\* A callback without the portfolioLoaded guard: every snapshot with holdings
\* starts a sweep.
SnapshotUnguarded ==
  /\ "portfolio" \in subscriptions
  /\ LET assets == SnapshotOf(db)
         stockAssets == SelectSeq(assets, IsStock)
         start == Len(assets) > 0
         sw == SweepStart(stockAssets, session, now)
     IN
     /\ assets # portfolio
     /\ portfolio' = assets
     /\ AfterRender(RenderThrows(isApiKeyConfigured, isAuthLoading, user,
                                 tickerPage.route, assets, accounts),
                    PriceEffect(user, assets, now))
     /\ portfolioLoaded' = (portfolioLoaded \/ start)
     /\ IF start /\ Len(stockAssets) > 0
        THEN /\ sweeps' = [sweeps EXCEPT ![session] = sw]
             /\ IF sw.pc = "calling"
                THEN /\ refreshes' = refreshes \o SweepIssue(sw.queue, 1, session, now)
                     /\ isLoading' = TRUE
                     /\ error' = NoStr
                ELSE UNCHANGED <<refreshes, isLoading, error>>
        ELSE UNCHANGED <<sweeps, refreshes, isLoading, error>>
  /\ UNCHANGED <<currentUser, isAuthLoading, accounts,
                 userProfile, isProfileModalOpen, cloud, submits, removes,
                 isApiKeyConfigured, tickerPage,
                 response, parsed, cadToUsdRate, rateCalls,
                 user, session, isSubmitting, db, now, adds, cashCalls, syncs,
                 deposited, lastEvent>>

\* The portfolio onSnapshot callback.
Snapshot ==
  /\ "portfolio" \in subscriptions
  /\ LET assets == SnapshotOf(db)
         stockAssets == SelectSeq(assets, IsStock)
         start == ~portfolioLoaded /\ Len(assets) > 0
         sw == SweepStart(stockAssets, session, now)
     IN
     /\ assets # portfolio
     /\ portfolio' = assets
     /\ AfterRender(RenderThrows(isApiKeyConfigured, isAuthLoading, user,
                                 tickerPage.route, assets, accounts),
                    PriceEffect(user, assets, now))
     /\ portfolioLoaded' = (portfolioLoaded \/ start)
     /\ IF start /\ Len(stockAssets) > 0
        THEN /\ sweeps' = [sweeps EXCEPT ![session] = sw]
             /\ IF sw.pc = "calling"
                THEN /\ refreshes' = refreshes \o SweepIssue(sw.queue, 1, session, now)
                     /\ isLoading' = TRUE
                     /\ error' = NoStr
                ELSE UNCHANGED <<refreshes, isLoading, error>>
        ELSE UNCHANGED <<sweeps, refreshes, isLoading, error>>
  /\ UNCHANGED <<currentUser, isAuthLoading, accounts,
                 userProfile, isProfileModalOpen, cloud, submits, removes,
                 isApiKeyConfigured, tickerPage,
                 response, parsed, cadToUsdRate, rateCalls,
                 user, session, isSubmitting, db, now, adds, cashCalls, syncs,
                 deposited, lastEvent>>

\* The refresh button of a stock row.
ManualRefresh(i) ==
  /\ user
  /\ RowRendered(i)
  /\ IsStock(portfolio[i])
  /\ Cardinality({k \in 1..Len(refreshes) : refreshes[k].origin = 0}) < MaxManual
  /\ refreshes' = Append(refreshes, RefreshCall(portfolio[i], 0, now))
  /\ isLoading' = TRUE
  /\ error' = NoStr
  /\ UNCHANGED <<mounted, currentUser, isAuthLoading, subscriptions, accounts,
                 userProfile, isProfileModalOpen, cloud, submits, removes,
                 isApiKeyConfigured, priceClock, tickerPage,
                 response, parsed, cadToUsdRate, rateCalls,
                 user, session, portfolio, portfolioLoaded, isSubmitting, db,
                 now, adds, cashCalls, sweeps, syncs, deposited, lastEvent>>

\* fetchStockDetailsForUpdate resolves: null (the oracle threw or returned
\* no text) or the parsed details.
RefreshResponse(i, ok, d) ==
  /\ i \in 1..Len(refreshes)
  /\ refreshes[i].pc = "fetching"
  /\ IF ok
     THEN /\ refreshes' = [refreshes EXCEPT ![i].pc = "writing",
                                            ![i].details = d,
                                            ![i].writeAt = now]
          /\ UNCHANGED <<error, isLoading, sweeps>>
     ELSE /\ refreshes' = RemoveAt(refreshes, i)
          /\ error' = SetState(error, "Could not refresh details")
          /\ isLoading' = SetState(isLoading, FALSE)
          /\ sweeps' = SweepsAfter(refreshes[i].origin, TRUE, now)
  /\ UNCHANGED <<mounted, currentUser, isAuthLoading, subscriptions, accounts,
                 userProfile, isProfileModalOpen, cloud, submits, removes,
                 isApiKeyConfigured, priceClock, tickerPage,
                 response, parsed, cadToUsdRate, rateCalls,
                 user, session, portfolio, portfolioLoaded, isSubmitting, db,
                 now, adds, cashCalls, syncs, deposited, lastEvent>>

\* updateDoc settles: the write is applied, or it is rejected (the document
\* was deleted, or the store refused it).
RefreshWritten(i, ok) ==
  /\ i \in 1..Len(refreshes)
  /\ refreshes[i].pc = "writing"
  /\ LET c == refreshes[i]
         applied == ok /\ c.id \in DOMAIN db /\ IsStock(db[c.id])
     IN
     /\ IF applied
        THEN /\ db' = [db EXCEPT ![c.id] = RefreshUpdate(@, c.details, c.writeAt)]
             /\ UNCHANGED error
        ELSE /\ error' = SetState(error, "updateDoc failed")
             /\ UNCHANGED db
     /\ sweeps' = SweepsAfter(c.origin, ~applied, now)
  /\ refreshes' = RemoveAt(refreshes, i)
  /\ isLoading' = SetState(isLoading, FALSE)
  /\ UNCHANGED <<mounted, currentUser, isAuthLoading, subscriptions, accounts,
                 userProfile, isProfileModalOpen, cloud, submits, removes,
                 isApiKeyConfigured, priceClock, tickerPage,
                 response, parsed, cadToUsdRate, rateCalls,
                 user, session, portfolio, portfolioLoaded, isSubmitting, now,
                 adds, cashCalls, syncs, deposited, lastEvent>>

\* The setTimeout of the sweep fires: next iteration of the loop, or its end.
SweepTimer(s) ==
  /\ sweeps[s].pc = "pausing"
  /\ now >= sweeps[s].timerAt + StaggerDelay
  /\ LET sw == sweeps[s] IN
     IF sw.idx < Len(sw.queue)
     THEN /\ sweeps' = [sweeps EXCEPT ![s].pc = "calling", ![s].idx = sw.idx + 1,
                                      ![s].attempted = Append(@, sw.queue[sw.idx + 1].id)]
          /\ refreshes' = refreshes \o SweepIssue(sw.queue, sw.idx + 1, s, now)
          /\ isLoading' = SetState(isLoading, TRUE)
          /\ error' = SetState(error, NoStr)
     ELSE /\ sweeps' = [sweeps EXCEPT ![s].pc = "done"]
          /\ UNCHANGED <<refreshes, isLoading, error>>
  /\ UNCHANGED <<mounted, currentUser, isAuthLoading, subscriptions, accounts,
                 userProfile, isProfileModalOpen, cloud, submits, removes,
                 isApiKeyConfigured, priceClock, tickerPage,
                 response, parsed, cadToUsdRate, rateCalls,
                 user, session, portfolio, portfolioLoaded, isSubmitting, db,
                 now, adds, cashCalls, syncs, deposited, lastEvent>>

\* ------------------------------------------------------------ add a stock
\* AddAssetForm disables its inputs and its submit button while
\* isLoading || isSubmitting.
FormEnabled == ~(isLoading \/ isSubmitting)

\* The form is in the portfolio view; its submit button is disabled while
\* accounts.length === 0, and handleSubmit returns while no account is
\* selected.  The selected account is one of the options of the select.
FormSubmits(accountId) ==
  /\ Screen = "Portfolio"
  /\ FormEnabled
  /\ accountId \in AccountIds

\* const ticker = data.ticker.toUpperCase();
\* const existingAsset = portfolio.find(asset => asset.type === Stock &&
\*   asset.ticker === ticker && asset.exchange === exchange &&
\*   asset.accountId === accountId)
ExistingAsset(pf, ticker, exchange, accountId) ==
  FindIndex({i \in 1..Len(pf) : /\ IsStock(pf[i])
                                 /\ pf[i].ticker = ticker
                                 /\ pf[i].exchange = exchange
                                 /\ pf[i].accountId = accountId})

\* The record addAsset hands to addDoc.
NewAsset(data, shares, avgCost, exchange, accountId, t) ==
  [type |-> "Stock", accountId |-> accountId,
   ticker |-> ToUpperCase(data.ticker), name |-> data.name, shares |-> shares, avgCost |-> avgCost,
   exchange |-> exchange, currentPrice |-> data.currentPrice,
   yearlyDividend |-> data.yearlyDividend, peRatio |-> data.peRatio,
   forwardPeRatio |-> data.forwardPeRatio,
   fiftyTwoWeekLow |-> data.fiftyTwoWeekLow,
   fiftyTwoWeekHigh |-> data.fiftyTwoWeekHigh,
   companyProfile |-> data.companyProfile, marketCap |-> data.marketCap,
   dividendYield |-> data.dividendYield, priceHistory |-> data.priceHistory,
   lastPriceUpdate |-> t, lastMetricsUpdate |-> t]

\* addAsset(query, shares, avgCost, exchange, accountId) up to its await; the
\* callback closes over the portfolio of the render it was created in.
AddAssetStart(exchange, accountId) ==
  /\ user
  /\ FormSubmits(accountId)
  /\ Len(adds) < MaxAdds
  /\ adds' = Append(adds, [exchange |-> exchange, accountId |-> accountId,
                           portfolio |-> portfolio, pc |-> "fetching",
                           doc |-> [type |-> "none"]])
  /\ isLoading' = TRUE
  /\ error' = NoStr
  /\ UNCHANGED <<mounted, currentUser, isAuthLoading, subscriptions, accounts,
                 userProfile, isProfileModalOpen, cloud, submits, removes,
                 isApiKeyConfigured, priceClock, tickerPage,
                 response, parsed, cadToUsdRate, rateCalls,
                 user, session, portfolio, portfolioLoaded, isSubmitting, db,
                 now, cashCalls, refreshes, sweeps, syncs, deposited, lastEvent>>

\* fetchFullStockData settles: it throws, returns null, or returns data.
AddAssetResponse(i, kind, data) ==
  /\ i \in 1..Len(adds)
  /\ adds[i].pc = "fetching"
  /\ LET c == adds[i] IN
     IF kind = "throw"
     THEN /\ error' = SetState(error, "Failed to fetch data")
          /\ isLoading' = SetState(isLoading, FALSE)
          /\ adds' = RemoveAt(adds, i)
     ELSE IF kind = "null" \/ data.currentPrice = 0
     THEN /\ error' = SetState(error, "Could not fetch data")
          /\ isLoading' = SetState(isLoading, FALSE)
          /\ adds' = RemoveAt(adds, i)
     ELSE IF ExistingAsset(c.portfolio, ToUpperCase(data.ticker), c.exchange,
                           c.accountId) # 0
     THEN /\ error' = SetState(error, "already in this account")
          /\ isLoading' = SetState(isLoading, FALSE)
          /\ adds' = RemoveAt(adds, i)
     ELSE /\ adds' = [adds EXCEPT ![i].pc = "writing",
                                  ![i].doc = NewAsset(data, 2, 8, c.exchange,
                                                      c.accountId, now)]
          /\ UNCHANGED <<error, isLoading>>
  /\ UNCHANGED <<mounted, currentUser, isAuthLoading, subscriptions, accounts,
                 userProfile, isProfileModalOpen, cloud, submits, removes,
                 isApiKeyConfigured, priceClock, tickerPage,
                 response, parsed, cadToUsdRate, rateCalls,
                 user, session, portfolio, portfolioLoaded, isSubmitting, db,
                 now, cashCalls, refreshes, sweeps, syncs, deposited, lastEvent>>

\* addDoc settles: the record is stored under a fresh id, or rejected.
AddAssetWritten(i, ok, id) ==
  /\ i \in 1..Len(adds)
  /\ adds[i].pc = "writing"
  /\ IF ok
     THEN /\ id \in FreeIds
          /\ db' = db @@ (id :> adds[i].doc)
          /\ UNCHANGED error
     ELSE /\ id = 0
          /\ error' = SetState(error, "addDoc failed")
          /\ UNCHANGED db
  /\ adds' = RemoveAt(adds, i)
  /\ isLoading' = SetState(isLoading, FALSE)
  /\ UNCHANGED <<mounted, currentUser, isAuthLoading, subscriptions, accounts,
                 userProfile, isProfileModalOpen, cloud, submits, removes,
                 isApiKeyConfigured, priceClock, tickerPage,
                 response, parsed, cadToUsdRate, rateCalls,
                 user, session, portfolio, portfolioLoaded, isSubmitting, now,
                 cashCalls, refreshes, sweeps, syncs, deposited, lastEvent>>

\* ----------------------------------------------------------- deposit cash
\* const existingCashAsset = portfolio.find(asset => asset.type === Cash &&
\*   asset.accountId === accountId && asset.currency === currency)
ExistingCashAsset(pf, accountId, currency) ==
  FindIndex({i \in 1..Len(pf) : /\ IsCash(pf[i])
                                 /\ pf[i].accountId = accountId
                                 /\ pf[i].currency = currency})

NewCashAsset(accountId, amount, currency) ==
  [accountId |-> accountId, type |-> "Cash", amount |-> amount,
   currency |-> currency,
   name |-> IF currency = "USD" THEN "US Dollars" ELSE "Canadian Dollars"]

\* The write addCash issues: an update of the amount of the cash record found
\* in the in-memory portfolio, or the creation of a new record.
CashWrite(pf, accountId, amount, currency) ==
  LET k == ExistingCashAsset(pf, accountId, currency) IN
  IF k # 0
  THEN [kind |-> "update", id |-> pf[k].id, amount |-> pf[k].amount + amount,
        accountId |-> accountId, currency |-> currency, deposit |-> amount]
  ELSE [kind |-> "add", id |-> 0, amount |-> amount,
        accountId |-> accountId, currency |-> currency, deposit |-> amount]

\* addCash(accountId, amount, currency) up to its await.
AddCashStart(accountId, amount, currency) ==
  /\ user
  /\ FormSubmits(accountId)
  /\ Len(cashCalls) < MaxCashCalls
  /\ deposited[<<accountId, currency>>] + amount <= MaxCash
  /\ cashCalls' = Append(cashCalls, CashWrite(portfolio, accountId, amount, currency))
  /\ isSubmitting' = TRUE
  /\ error' = NoStr
  /\ UNCHANGED <<mounted, currentUser, isAuthLoading, subscriptions, accounts,
                 userProfile, isProfileModalOpen, cloud, submits, removes,
                 isApiKeyConfigured, priceClock, tickerPage,
                 response, parsed, cadToUsdRate, rateCalls,
                 user, session, portfolio, portfolioLoaded, isLoading, db, now,
                 adds, refreshes, sweeps, syncs, deposited, lastEvent>>

\* updateDoc / addDoc of addCash settles.
AddCashDone(i, ok, id) ==
  /\ i \in 1..Len(cashCalls)
  /\ LET c == cashCalls[i]
         applied == IF c.kind = "update"
                    THEN ok /\ c.id \in DOMAIN db
                    ELSE ok
     IN
     /\ IF c.kind = "add" /\ ok THEN id \in FreeIds ELSE id = 0
     /\ IF applied
        THEN /\ db' = IF c.kind = "update"
                      THEN [db EXCEPT ![c.id].amount = c.amount]
                      ELSE db @@ (id :> NewCashAsset(c.accountId, c.amount, c.currency))
             /\ deposited' = [deposited EXCEPT ![<<c.accountId, c.currency>>] = @ + c.deposit]
             /\ UNCHANGED error
        ELSE /\ error' = SetState(error, "Failed to add cash balance.")
             /\ UNCHANGED <<db, deposited>>
  /\ cashCalls' = RemoveAt(cashCalls, i)
  /\ isSubmitting' = SetState(isSubmitting, FALSE)
  /\ UNCHANGED <<mounted, currentUser, isAuthLoading, subscriptions, accounts,
                 userProfile, isProfileModalOpen, cloud, submits, removes,
                 isApiKeyConfigured, priceClock, tickerPage,
                 response, parsed, cadToUsdRate, rateCalls,
                 user, session, portfolio, portfolioLoaded, isLoading, now,
                 adds, refreshes, sweeps, syncs, lastEvent>>

\* --------------------------------------------------------- remove a holding
\* removeAsset(id) of the row i, up to its await of deleteDoc.
RemoveAsset(i) ==
  /\ user
  /\ RowRendered(i)
  /\ Len(removes) < MaxRemoves
  /\ removes' = Append(removes, portfolio[i].id)
  /\ UNCHANGED <<mounted, currentUser, isAuthLoading, subscriptions, accounts,
                 userProfile, isProfileModalOpen, cloud, submits,
                 isApiKeyConfigured, priceClock, tickerPage,
                 response, parsed, cadToUsdRate, rateCalls,
                 user, session, portfolio, portfolioLoaded, isLoading,
                 isSubmitting, error, db, now, adds, cashCalls, refreshes,
                 sweeps, syncs, deposited, lastEvent>>

\* deleteDoc settles: the document is gone (deleting an absent document
\* succeeds), or the store refused and the catch block sets the error.
RemoveAssetDone(k, ok) ==
  /\ k \in 1..Len(removes)
  /\ LET id == removes[k] IN
     IF ok
     THEN /\ db' = [x \in DOMAIN db \ {id} |-> db[x]]
          /\ deposited' = IF id \in DOMAIN db /\ IsCash(db[id])
                          THEN [deposited EXCEPT
                                  ![<<db[id].accountId, db[id].currency>>] = 0]
                          ELSE deposited
          /\ UNCHANGED error
     ELSE /\ error' = SetState(error, "Failed to remove asset.")
          /\ UNCHANGED <<db, deposited>>
  /\ removes' = RemoveAt(removes, k)
  /\ UNCHANGED <<mounted, currentUser, isAuthLoading, subscriptions, accounts,
                 userProfile, isProfileModalOpen, cloud, submits,
                 isApiKeyConfigured, priceClock, tickerPage,
                 response, parsed, cadToUsdRate, rateCalls,
                 user, session, portfolio, portfolioLoaded, isLoading,
                 isSubmitting, now, adds, cashCalls, refreshes, sweeps, syncs,
                 lastEvent>>

\* -------------------------------------------------------------- price sync
\* assets.find(a => a.ticker.toUpperCase() === ticker && a.exchange === exchange)
OriginalAsset(assets, item) ==
  FindIndex({i \in 1..Len(assets) :
                /\ ToUpperCase(assets[i].ticker) = ToUpperCase(item.ticker)
                /\ assets[i].exchange = item.exchange})

\* The updates fetchBatchPrices builds from the items of the response text.
RECURSIVE BatchUpdates(_, _)
BatchUpdates(assets, items) ==
  IF items = << >> THEN << >>
  ELSE LET it == Head(items)
           k == OriginalAsset(assets, it)
       IN (IF k # 0 /\ it.price # NULL
           THEN <<[ticker |-> assets[k].ticker, exchange |-> assets[k].exchange,
                   price |-> it.price]>>
           ELSE << >>) \o BatchUpdates(assets, Tail(items))

\* The find without its ticker test: the first holding of the exchange.
AssetToUpdateByExchange(stockAssets, update) ==
  FindIndex({i \in 1..Len(stockAssets) :
                stockAssets[i].exchange = update.exchange})

\* stockAssets.find(a => a.ticker === update.ticker && a.exchange === update.exchange)
AssetToUpdate(stockAssets, update) ==
  FindIndex({i \in 1..Len(stockAssets) :
                /\ stockAssets[i].ticker = update.ticker
                /\ stockAssets[i].exchange = update.exchange})

\* The batch.update calls the interval callback makes for the updates.
RECURSIVE BatchWrites(_, _, _)
BatchWrites(stockAssets, updates, t) ==
  IF updates = << >> THEN << >>
  ELSE LET u == Head(updates)
           k == AssetToUpdate(stockAssets, u)
       IN (IF k # 0
           THEN <<[id |-> stockAssets[k].id, currentPrice |-> u.price,
                   lastPriceUpdate |-> t]>>
           ELSE << >>) \o BatchWrites(stockAssets, Tail(updates), t)

\* The update with one timestamp for both kinds of write.
PriceUpdateBothStamps(doc, w) ==
  [doc EXCEPT !.currentPrice = w.currentPrice,
              !.lastPriceUpdate = w.lastPriceUpdate,
              !.lastMetricsUpdate = w.lastPriceUpdate]

\* batch.update(docRef, { currentPrice, lastPriceUpdate }) on one document.
PriceUpdate(doc, w) ==
  [doc EXCEPT !.currentPrice = w.currentPrice,
              !.lastPriceUpdate = w.lastPriceUpdate]

\* batch.commit(): the writes are applied in order.
RECURSIVE ApplyBatch(_, _)
ApplyBatch(d, writes) ==
  IF writes = << >> THEN d
  ELSE LET w == Head(writes) IN
       ApplyBatch([d EXCEPT ![w.id] = PriceUpdate(@, w)], Tail(writes))

BatchResponses == UNION {[1..n -> BatchItems] : n \in 0..MaxItems}

\* The instants from which the interval counts its next 60 seconds once it
\* has fired at time t: the firing itself (a runtime that re-arms a late
\* timer from the firing) or the last instant of the schedule set at armedAt
\* (a runtime that keeps the schedule).  The two are one for a firing that
\* is on time.
Rearms(armedAt, t) ==
  {t, armedAt + SixtySeconds * ((t - armedAt) \div SixtySeconds)}

\* The interval set by the price effect is due, 60 seconds after it was set
\* or after its last scheduled firing: its callback calls fetchBatchPrices
\* with the stock holdings of the render the effect ran in.
PriceTimer ==
  /\ priceClock.armedAt # NULL
  /\ now >= priceClock.armedAt + SixtySeconds
  /\ Len(syncs) < MaxSyncs
  /\ syncs' = Append(syncs, [stockAssets |-> priceClock.stockAssets,
                             pc |-> "fetching", items |-> << >>,
                             writes |-> << >>])
  /\ \E a \in Rearms(priceClock.armedAt, now) :
        priceClock' = [priceClock EXCEPT !.armedAt = a]
  /\ UNCHANGED <<mounted, currentUser, isAuthLoading, subscriptions, accounts,
                 userProfile, isProfileModalOpen, cloud, submits, removes,
                 isApiKeyConfigured, tickerPage, response, parsed,
                 cadToUsdRate, rateCalls, user, session, portfolio,
                 portfolioLoaded, isLoading, isSubmitting, error, db, now,
                 adds, cashCalls, refreshes, sweeps, deposited, lastEvent>>

\* fetchBatchPrices settles: null (the oracle threw, or no usable item), or
\* the list of updates, for which the callback fills a write batch.
PriceResponse(i, ok, items) ==
  /\ i \in 1..Len(syncs)
  /\ syncs[i].pc = "fetching"
  /\ LET updates == IF ok THEN BatchUpdates(syncs[i].stockAssets, items) ELSE << >> IN
     IF Len(updates) > 0
     THEN syncs' = [syncs EXCEPT ![i].pc = "committing", ![i].items = items,
                                 ![i].writes = BatchWrites(syncs[i].stockAssets, updates, now)]
     ELSE /\ items = << >> \/ ok
          /\ syncs' = RemoveAt(syncs, i)
  /\ UNCHANGED <<mounted, currentUser, isAuthLoading, subscriptions, accounts,
                 userProfile, isProfileModalOpen, cloud, submits, removes,
                 isApiKeyConfigured, priceClock, tickerPage,
                 response, parsed, cadToUsdRate, rateCalls,
                 user, session, portfolio, portfolioLoaded, isLoading,
                 isSubmitting, error, db, now, adds, cashCalls, refreshes,
                 sweeps, deposited, lastEvent>>

\* batch.commit() settles: all the writes are applied, or none is (a target
\* document was deleted, or the store refused the batch).
PriceCommit(i, ok) ==
  /\ i \in 1..Len(syncs)
  /\ syncs[i].pc = "committing"
  /\ LET c == syncs[i]
         applied == ok /\ \A k \in 1..Len(c.writes) : c.writes[k].id \in DOMAIN db
     IN
     IF applied
     THEN /\ db' = ApplyBatch(db, c.writes)
          /\ lastEvent' = [op |-> "priceSync", items |-> c.items]
     ELSE UNCHANGED <<db, lastEvent>>
  /\ syncs' = RemoveAt(syncs, i)
  /\ UNCHANGED <<mounted, currentUser, isAuthLoading, subscriptions, accounts,
                 userProfile, isProfileModalOpen, cloud, submits, removes,
                 isApiKeyConfigured, priceClock, tickerPage,
                 response, parsed, cadToUsdRate, rateCalls,
                 user, session, portfolio, portfolioLoaded, isLoading,
                 isSubmitting, error, now, adds, cashCalls, refreshes, sweeps,
                 deposited>>

\* ---------------------------------------------------------- response texts
\* A text is a sequence of characters.  The texts of the model hold digits,
\* commas, blanks, letters, the separators of a price history and the signs
\* of a numeral: no decimal point or exponent.  A signed numeral of the model
\* is smaller than NaN, so that it is neither of the two null values.  The null of a text-valued field is NoText (a
\* getStr never returns the empty text).
NoText == << >>
NaN == NULL - 1

DigitValue ==
  ("0" :> 0) @@ ("1" :> 1) @@ ("2" :> 2) @@ ("3" :> 3) @@ ("4" :> 4)
  @@ ("5" :> 5) @@ ("6" :> 6) @@ ("7" :> 7) @@ ("8" :> 8) @@ ("9" :> 9)
LowerCaseOf ==
  ("A" :> "a") @@ ("B" :> "b") @@ ("D" :> "d") @@ ("E" :> "e")
  @@ ("N" :> "n") @@ ("T" :> "t") @@ ("X" :> "x")
UpperCaseOf ==
  ("a" :> "A") @@ ("b" :> "B") @@ ("d" :> "D") @@ ("e" :> "E")
  @@ ("n" :> "N") @@ ("t" :> "T") @@ ("x" :> "X")

\* String.prototype.toLowerCase / toUpperCase on a text.
toLowerCase(s) ==
  [i \in 1..Len(s) |-> IF s[i] \in DOMAIN LowerCaseOf THEN LowerCaseOf[s[i]] ELSE s[i]]
toUpperCase(s) ==
  [i \in 1..Len(s) |-> IF s[i] \in DOMAIN UpperCaseOf THEN UpperCaseOf[s[i]] ELSE s[i]]

\* String.prototype.trim.
RECURSIVE trimStart(_)
trimStart(s) == IF s # << >> /\ Head(s) = " " THEN trimStart(Tail(s)) ELSE s
RECURSIVE trimEnd(_)
trimEnd(s) ==
  IF s # << >> /\ s[Len(s)] = " " THEN trimEnd(SubSeq(s, 1, Len(s) - 1)) ELSE s
trim(s) == trimEnd(trimStart(s))

\* val.replace(/,/g, '')
replaceCommas(s) == SelectSeq(s, LAMBDA c : c # ",")

\* String.prototype.split on a one-character separator.
RECURSIVE split(_, _)
split(s, sep) ==
  IF \E i \in 1..Len(s) : s[i] = sep
  THEN LET i == CHOOSE k \in 1..Len(s) : s[k] = sep /\ \A j \in 1..(k - 1) : s[j] # sep
       IN <<SubSeq(s, 1, i - 1)>> \o split(SubSeq(s, i + 1, Len(s)), sep)
  ELSE <<s>>

\* parseFloat: the number written by the longest prefix of digits, after
\* leading blanks; NaN when there is none.
RECURSIVE numberOf(_)
numberOf(s) ==
  IF s = << >> THEN 0
  ELSE numberOf(SubSeq(s, 1, Len(s) - 1)) * 10 + DigitValue[s[Len(s)]]
digitPrefix(s) ==
  CHOOSE n \in 0..Len(s) :
     /\ \A i \in 1..n : s[i] \in DOMAIN DigitValue
     /\ n < Len(s) => s[n + 1] \notin DOMAIN DigitValue
parseFloat(s) ==
  LET t == trimStart(s)
      signed == t # << >> /\ Head(t) \in {"-", "+"}
      u == IF signed THEN Tail(t) ELSE t
      n == digitPrefix(u)
      m == numberOf(SubSeq(u, 1, n))
  IN IF n = 0 THEN NaN
     ELSE IF signed /\ Head(t) = "-" THEN 0 - m ELSE m

\* ------------------------------------------------------ response parsers
\* A response text is the sequence of its "|||"-separated items, each the
\* sequence of its ":::"-separated parts; a key is one word, and the empty
\* response is the one for which getGeminiTextResponse throws.
LowerKeyTable ==
  [ticker |-> "ticker", TICKER |-> "ticker",
   name |-> "name", NAME |-> "name",
   currentPrice |-> "currentprice", currentprice |-> "currentprice",
   CURRENTPRICE |-> "currentprice",
   peRatio |-> "peratio", peratio |-> "peratio", PERATIO |-> "peratio",
   marketCap |-> "marketcap", marketcap |-> "marketcap",
   MARKETCAP |-> "marketcap",
   priceHistory |-> "pricehistory", pricehistory |-> "pricehistory",
   PRICEHISTORY |-> "pricehistory"]
toLowerCaseKey(k) == IF k \in DOMAIN LowerKeyTable THEN LowerKeyTable[k] ELSE k

NotAvailable == <<"n", "/", "a">>
NoProfile == <<"No profile available.">>
NoData == [null |-> TRUE]
Threw == [threw |-> TRUE]

\* const data = new Map(); text.split('|||').forEach(pair => { const parts =
\* pair.split(':::'); if (parts.length === 2) data.set(key, parts[1].trim()) })
\* where key is parts[0].trim().toLowerCase() when lower, parts[0].trim()
\* otherwise.
RECURSIVE dataMap(_, _)
dataMap(text, lower) ==
  IF text = << >> THEN [k \in {} |-> NoText]
  ELSE LET rest == dataMap(SubSeq(text, 1, Len(text) - 1), lower)
           parts == text[Len(text)]
       IN IF Len(parts) = 2
          THEN ((IF lower THEN toLowerCaseKey(parts[1]) ELSE parts[1])
                  :> trim(parts[2])) @@ rest
          ELSE rest

\* A getStr that takes "n/a" for a value.
getStrKeepNA(data, key) ==
  IF key \in DOMAIN data /\ data[key] # NoText THEN data[key] ELSE NoText

\* getStr: the value of the key, null when there is none, when it is empty
\* or when it is "n/a" in any letter case.
getStr(data, key) ==
  IF key \in DOMAIN data /\ data[key] # NoText
     /\ toLowerCase(data[key]) # NotAvailable
  THEN data[key]
  ELSE NoText

\* getNum of fetchFullStockData and fetchStockDetailsForUpdate.
getNum(data, key) ==
  IF key \notin DOMAIN data THEN NULL
  ELSE IF data[key] = NoText \/ toLowerCase(data[key]) = NotAvailable THEN NULL
  ELSE LET num == parseFloat(replaceCommas(data[key])) IN
       IF num = NaN THEN NULL ELSE num

\* getNum of fetchTickerDetails: parseFloat(val), the commas kept.
getNumTickerDetails(data, key) ==
  IF key \notin DOMAIN data THEN NULL
  ELSE IF data[key] = NoText \/ toLowerCase(data[key]) = NotAvailable THEN NULL
  ELSE LET num == parseFloat(data[key]) IN
       IF num = NaN THEN NULL ELSE num

\* A filter that does not look at the date.
RECURSIVE historyItemsAnyDate(_)
historyItemsAnyDate(items) ==
  IF items = << >> THEN << >>
  ELSE LET parts == split(Head(items), ":")
           close == IF Len(parts) >= 2 THEN parseFloat(parts[2]) ELSE NaN
       IN (IF close # NaN
           THEN <<[date |-> parts[1], close |-> close]>>
           ELSE << >>) \o historyItemsAnyDate(Tail(items))

\* historyStr.split(';').map(item => { const [date, closeStr] =
\* item.split(':'); const close = parseFloat(closeStr); return (date &&
\* !isNaN(close)) ? { date, close } : null }).filter(item => item !== null)
RECURSIVE historyItems(_)
historyItems(items) ==
  IF items = << >> THEN << >>
  ELSE LET parts == split(Head(items), ":")
           date == parts[1]
           close == IF Len(parts) >= 2 THEN parseFloat(parts[2]) ELSE NaN
       IN (IF date # NoText /\ close # NaN
           THEN <<[date |-> date, close |-> close]>>
           ELSE << >>) \o historyItems(Tail(items))
priceHistoryOf(historyStr) ==
  IF historyStr # NoText THEN historyItems(split(historyStr, ";")) ELSE << >>

\* fetchFullStockData, from the response text it got.
fetchFullStockData(text) ==
  IF text = << >> THEN Threw
  ELSE LET data == dataMap(text, TRUE)
           ticker == getStr(data, "ticker")
           name == getStr(data, "name")
           currentPrice == getNum(data, "currentprice")
           profile == getStr(data, "companyprofile")
       IN IF ticker = NoText \/ name = NoText \/ currentPrice = NULL
          THEN NoData
          ELSE [ticker |-> toUpperCase(ticker), name |-> name,
                currentPrice |-> currentPrice,
                yearlyDividend |-> getNum(data, "yearlydividend"),
                peRatio |-> getNum(data, "peratio"),
                forwardPeRatio |-> getNum(data, "forwardperatio"),
                fiftyTwoWeekLow |-> getNum(data, "fiftytwoweeklow"),
                fiftyTwoWeekHigh |-> getNum(data, "fiftytwoweekhigh"),
                companyProfile |-> IF profile = NoText THEN NoProfile ELSE profile,
                marketCap |-> getStr(data, "marketcap"),
                dividendYield |-> getNum(data, "dividendyield"),
                priceHistory |-> priceHistoryOf(getStr(data, "pricehistory"))]

\* fetchStockDetailsForUpdate, from the response text it got.
fetchStockDetailsForUpdate(text) ==
  IF text = << >> THEN NoData
  ELSE LET data == dataMap(text, TRUE) IN
       [peRatio |-> getNum(data, "peratio"),
        forwardPeRatio |-> getNum(data, "forwardperatio"),
        fiftyTwoWeekLow |-> getNum(data, "fiftytwoweeklow"),
        fiftyTwoWeekHigh |-> getNum(data, "fiftytwoweekhigh"),
        marketCap |-> getStr(data, "marketcap"),
        dividendYield |-> getNum(data, "dividendyield"),
        yearlyDividend |-> getNum(data, "yearlydividend"),
        priceHistory |-> priceHistoryOf(getStr(data, "pricehistory"))]

\* fetchTickerDetails, from the response text it got.
fetchTickerDetails(text) ==
  IF text = << >> THEN Threw
  ELSE LET data == dataMap(text, FALSE)
           name == getStr(data, "name")
           profile == getStr(data, "companyProfile")
           price == getNumTickerDetails(data, "currentPrice")
       IN [name |-> IF name = NoText THEN <<"N", "/", "A">> ELSE name,
           companyProfile |-> IF profile = NoText THEN NoProfile ELSE profile,
           marketCap |-> getStr(data, "marketCap"),
           peRatio |-> getNumTickerDetails(data, "peRatio"),
           dividendYield |-> getNumTickerDetails(data, "dividendYield"),
           fiftyTwoWeekLow |-> getNumTickerDetails(data, "fiftyTwoWeekLow"),
           fiftyTwoWeekHigh |-> getNumTickerDetails(data, "fiftyTwoWeekHigh"),
           dayChange |-> getNumTickerDetails(data, "dayChange"),
           dayChangePercent |-> getNumTickerDetails(data, "dayChangePercent"),
           currentPrice |-> IF price = NULL THEN 0 ELSE price,
           priceHistory |-> priceHistoryOf(getStr(data, "priceHistory"))]

\* The texts the oracle answers with: the keys spelled in one letter case,
\* each of six pairs present with one of a few values, absent, or (the price)
\* written with three parts.
KeySpelling ==
  [camel |-> [ticker |-> "ticker", name |-> "name",
              currentprice |-> "currentPrice", peratio |-> "peRatio",
              marketcap |-> "marketCap", pricehistory |-> "priceHistory"],
   lower |-> [ticker |-> "ticker", name |-> "name",
              currentprice |-> "currentprice", peratio |-> "peratio",
              marketcap |-> "marketcap", pricehistory |-> "pricehistory"],
   upper |-> [ticker |-> "TICKER", name |-> "NAME",
              currentprice |-> "CURRENTPRICE", peratio |-> "PERATIO",
              marketcap |-> "MARKETCAP", pricehistory |-> "PRICEHISTORY"]]
Spellings == {"camel", "lower", "upper"}

TickerTexts == {<<"a", "b">>, <<"N", "/", "A">>}
NameTexts == {<<"X">>, <<"n", "/", "a">>}
PriceTexts == {<<"1", "2">>, <<"1", ",", "2", "3", "4">>, <<"x">>,
               <<"N", "/", "A">>, <<" ", "7", " ">>}
RatioTexts == {<<"7">>, <<"2", ",", "5", "0", "0">>, <<"N", "/", "a">>}
CapTexts == {<<"1", "T">>, <<"N", "/", "A">>}
HistoryTexts == {<<"d", ":", "9", ";", "x">>}

Chunks(style, key, values) ==
  {<< >>} \cup {<< <<KeySpelling[style][key], v>> >> : v \in values}
ThreeParts(style, key) == << <<KeySpelling[style][key], <<"1">>, <<"2">> >> >>

ResponseTexts ==
  {<< >>} \cup
  UNION {{t \o n \o c \o r \o m \o h :
             t \in Chunks(style, "ticker", TickerTexts),
             n \in Chunks(style, "name", NameTexts),
             c \in Chunks(style, "currentprice", PriceTexts)
                     \cup {ThreeParts(style, "currentprice")},
             r \in Chunks(style, "peratio", RatioTexts),
             m \in Chunks(style, "marketcap", CapTexts),
             h \in Chunks(style, "pricehistory", HistoryTexts)} :
          style \in Spellings}

\* getGeminiTextResponse settles with a text for the fetch operation that
\* awaits it.
TextResponse(text) ==
  /\ isApiKeyConfigured
  /\ parsed.op = "none"
  /\ response' = text
  /\ parsed' = [op |-> "text"]
  /\ UNCHANGED <<mounted, currentUser, isAuthLoading, subscriptions, accounts,
                 userProfile, isProfileModalOpen, cloud, submits, removes,
                 isApiKeyConfigured, priceClock, tickerPage,
                 user, session, portfolio, portfolioLoaded, isLoading,
                 isSubmitting, error, db, now, adds, cashCalls, refreshes,
                 sweeps, syncs, deposited, lastEvent, cadToUsdRate, rateCalls>>

Fetch(op, text) ==
  CASE op = "fetchFullStockData" -> fetchFullStockData(text)
    [] op = "fetchStockDetailsForUpdate" -> fetchStockDetailsForUpdate(text)
    [] op = "fetchTickerDetails" -> fetchTickerDetails(text)
FetchOps == {"fetchFullStockData", "fetchStockDetailsForUpdate",
             "fetchTickerDetails"}

\* ai.models.generateContent rejects: the oracle could not be reached.
OracleFailure ==
  /\ isApiKeyConfigured
  /\ parsed.op = "none"
  /\ parsed' = [op |-> "rejected"]
  /\ UNCHANGED <<mounted, currentUser, isAuthLoading, subscriptions, accounts,
                 userProfile, isProfileModalOpen, cloud, submits, removes,
                 isApiKeyConfigured, priceClock, tickerPage, response,
                 user, session, portfolio, portfolioLoaded, isLoading,
                 isSubmitting, error, db, now, adds, cashCalls, refreshes,
                 sweeps, syncs, deposited, lastEvent, cadToUsdRate, rateCalls>>

\* getGeminiTextResponse: the rejection of generateContent passes through,
\* an empty text throws "No text in Gemini response.", any other text is
\* returned.
getGeminiTextResponse(outcome) ==
  IF outcome.kind = "rejected" THEN [threw |-> "rejected"]
  ELSE IF outcome.text = << >> THEN [threw |-> "No text in Gemini response."]
  ELSE [text |-> outcome.text]

\* try { const text = await getGeminiTextResponse(...); ... } catch (error)
\* { console.error(...); ... }: the catch block of every fetch operation
\* logs the error it caught and returns, or throws, the same whatever it was.
FetchOutcome(op, outcome) ==
  LET r == getGeminiTextResponse(outcome) IN
  IF "threw" \in DOMAIN r THEN Fetch(op, << >>) ELSE Fetch(op, r.text)

\* if (!isApiKeyConfigured) return null: a fetch operation called without a
\* key returns before it builds its prompt.
FetchWithoutKey(op) ==
  /\ ~isApiKeyConfigured
  /\ parsed.op = "none"
  /\ parsed' = [op |-> op, oracle |-> "none", value |-> NoData]
  /\ UNCHANGED <<mounted, currentUser, isAuthLoading, subscriptions, accounts,
                 userProfile, isProfileModalOpen, cloud, submits, removes,
                 isApiKeyConfigured, priceClock, tickerPage, response,
                 user, session, portfolio, portfolioLoaded, isLoading,
                 isSubmitting, error, db, now, adds, cashCalls, refreshes,
                 sweeps, syncs, deposited, lastEvent, cadToUsdRate, rateCalls>>

\* The fetch operation op continues after its await, and returns.
Parse(op) ==
  /\ parsed.op \in {"text", "rejected"}
  /\ parsed' = [op |-> op, oracle |-> parsed.op,
                value |-> FetchOutcome(op, [kind |-> parsed.op, text |-> response])]
  /\ UNCHANGED <<mounted, currentUser, isAuthLoading, subscriptions, accounts,
                 userProfile, isProfileModalOpen, cloud, submits, removes,
                 isApiKeyConfigured, priceClock, tickerPage,
                 user, session, portfolio, portfolioLoaded, isLoading,
                 isSubmitting, error, db, now, adds, cashCalls, refreshes,
                 sweeps, syncs, deposited, lastEvent, cadToUsdRate, rateCalls,
                 response>>

\* ---------------------------------------------------------- exchange rate
\* fetchCadToUsdRate, from the response text it got: null when the oracle
\* call threw (the empty text) and when parseFloat gives NaN.
fetchCadToUsdRate(text) ==
  IF text = << >> THEN NULL
  ELSE LET rate == parseFloat(text) IN IF rate = NaN THEN NULL ELSE rate

\* if (rate) setCadToUsdRate(rate) else setCadToUsdRate(1)
RateSet(rate) == IF rate # NULL /\ rate # 0 THEN rate ELSE 1

RateTexts == {<< >>, <<"2">>, <<"0">>, <<"x">>, <<" ", "3", "x">>, <<"-", "7">>}

\* A pending getRate continues after its await, whoever is signed in by
\* then.
RateResponse(text) ==
  /\ rateCalls > 0
  /\ rateCalls' = rateCalls - 1
  /\ cadToUsdRate' = SetState(cadToUsdRate, RateSet(fetchCadToUsdRate(text)))
  /\ lastEvent' = [op |-> "rate", text |-> text]
  /\ UNCHANGED <<mounted, currentUser, isAuthLoading, subscriptions, accounts,
                 userProfile, isProfileModalOpen, cloud, submits, removes,
                 isApiKeyConfigured, priceClock, tickerPage,
                 user, session, portfolio, portfolioLoaded, isLoading,
                 isSubmitting, error, db, now, adds, cashCalls, refreshes,
                 sweeps, syncs, deposited, response, parsed>>

\* ---------------------------------------------------------------- summary
\* const rate = asset.exchange === Exchange.CANADA ? conversionRate : 1, with
\* the conversion applied to every stock.
stockRateAlways(asset, conversionRate) == conversionRate

\* const rate = asset.exchange === Exchange.CANADA ? conversionRate : 1
stockRate(asset, conversionRate) ==
  IF asset.exchange = "Canada" THEN conversionRate ELSE 1

\* const rate = asset.currency === Currency.CAD ? conversionRate : 1
cashRate(asset, conversionRate) ==
  IF asset.currency = "CAD" THEN conversionRate ELSE 1

\* assets.forEach(asset => { ... summary.totalMarketValue += ...;
\* summary.totalCost += ... })
RECURSIVE forEachAsset(_, _, _)
forEachAsset(assets, conversionRate, summary) ==
  IF assets = << >> THEN summary
  ELSE LET asset == Head(assets)
           next ==
             IF asset.type = "Stock"
             THEN LET rate == stockRate(asset, conversionRate)
                      marketValue == asset.shares * asset.currentPrice * rate
                      totalCost == asset.shares * asset.avgCost * rate
                  IN [summary EXCEPT !.totalMarketValue = @ + marketValue,
                                     !.totalCost = @ + totalCost]
             ELSE LET rate == cashRate(asset, conversionRate)
                      value == asset.amount * rate
                  IN [summary EXCEPT !.totalMarketValue = @ + value,
                                     !.totalCost = @ + value]
       IN forEachAsset(Tail(assets), conversionRate, next)

\* What a division by zero leaves in a number: no percentage is less than
\* -100, so this is none.
NotFinite == NaN * 1000

\* (gainLoss / totalCost) * 100 without the test for a zero cost.
returnUnguarded(gainLoss, totalCost) ==
  IF totalCost = 0 THEN NotFinite ELSE (gainLoss * 100) \div totalCost

\* totalCost === 0 ? 0 : (gainLoss / totalCost) * 100, in whole percents.
returnPercent(gainLoss, totalCost) ==
  IF totalCost = 0 THEN 0 ELSE (gainLoss * 100) \div totalCost

calculateSummary(assets, rate) ==
  LET conversionRate == IF rate = NULL THEN 1 ELSE rate
      summary == forEachAsset(assets, conversionRate,
                              [totalMarketValue |-> 0, totalCost |-> 0,
                               totalGainLoss |-> 0, dayGainLoss |-> 0,
                               overallReturn |-> 0])
      totalGainLoss == summary.totalMarketValue - summary.totalCost
  IN [summary EXCEPT !.totalGainLoss = totalGainLoss,
                     !.overallReturn = returnPercent(totalGainLoss, summary.totalCost)]

\* useMemo(() => calculateSummary(portfolio, cadToUsdRate), ...)
totalPortfolioSummary == calculateSummary(portfolio, cadToUsdRate)

\* StockAssetItem: the gain of a row in percents of its cost.
gainLossPercent(asset) ==
  LET marketValue == asset.shares * asset.currentPrice
      totalCost == asset.shares * asset.avgCost
      gainLoss == marketValue - totalCost
  IN returnPercent(gainLoss, totalCost)

\* ------------------------------------------------- listeners that fail
\* The error callback of a listener of the main effect; a listener that
\* failed delivers nothing more.
ListenerFailure ==
  ("portfolio" :> "Could not load portfolio from the cloud.")
  @@ ("accounts" :> "Could not load accounts from the cloud.")
  @@ ("user profile" :> "Could not load user profile from the cloud.")

ListenerError(l) ==
  /\ l \in subscriptions
  /\ subscriptions' = subscriptions \ {l}
  /\ error' = ListenerFailure[l]
  /\ UNCHANGED <<mounted, currentUser, isAuthLoading, accounts, userProfile,
                 isProfileModalOpen, cloud, submits, removes,
                 isApiKeyConfigured, priceClock, tickerPage, response,
                 parsed, cadToUsdRate, rateCalls, user, session, portfolio,
                 portfolioLoaded, isLoading, isSubmitting, db, now, adds,
                 cashCalls, refreshes, sweeps, syncs, deposited, lastEvent>>

\* ------------------------------------------------------ accounts, profile
\* The order of a.name.localeCompare(b.name) over the names of the model,
\* and the order of the document ids.
NameRank == ("A0" :> 0) @@ ("A1" :> 1) @@ ("A2" :> 2) @@ ("A3" :> 3)
AccountIdOrder == <<"acc0", "acc1", "acc2", "acc3">>
NewAccountIds == {"acc0", "acc3"}
AccountTypes == {"TFSA", "FHSA", "RRSP", "Margin"}

\* querySnapshot.docs.map(doc => ({ id: doc.id, ...doc.data() }))
AccountDocs(c) ==
  LET ids == SelectSeq(AccountIdOrder, LAMBDA id : id \in DOMAIN c)
  IN [k \in 1..Len(ids) |->
        [id |-> ids[k], name |-> c[ids[k]].name, type |-> c[ids[k]].type]]

\* accs.sort((a, b) => a.name.localeCompare(b.name)): a stable sort.
RECURSIVE sortByName(_)
sortByName(accs) ==
  IF accs = << >> THEN << >>
  ELSE LET h == Head(accs)
           rest == sortByName(Tail(accs))
           before == SelectSeq(rest, LAMBDA a : NameRank[a.name] < NameRank[h.name])
           after == SelectSeq(rest, LAMBDA a : NameRank[a.name] >= NameRank[h.name])
       IN before \o <<h>> \o after

\* The accounts onSnapshot callback.
AccountsSnapshot ==
  /\ "accounts" \in subscriptions
  /\ LET accs == sortByName(AccountDocs(cloud.accounts)) IN
     /\ accs # accounts
     /\ accounts' = accs
     /\ AfterRender(RenderThrows(isApiKeyConfigured, isAuthLoading, user,
                                 tickerPage.route, portfolio, accs),
                    priceClock)
  /\ UNCHANGED <<currentUser, isAuthLoading, userProfile,
                 isProfileModalOpen, cloud, submits, removes,
                 isApiKeyConfigured, tickerPage, response,
                 parsed, cadToUsdRate, rateCalls, user, session, portfolio,
                 portfolioLoaded, isLoading, isSubmitting, error, db, now,
                 adds, cashCalls, refreshes, sweeps, syncs, deposited,
                 lastEvent>>

\* doc.exists() ? doc.data() : {}
ProfileOf(d) ==
  IF d.exists THEN [estimatedEarnings |-> d.estimatedEarnings]
  ELSE [estimatedEarnings |-> NULL]

\* The user document onSnapshot callback.
ProfileSnapshot ==
  /\ "user profile" \in subscriptions
  /\ ProfileOf(cloud.profile) # userProfile
  /\ userProfile' = ProfileOf(cloud.profile)
  /\ UNCHANGED <<mounted, currentUser, isAuthLoading, subscriptions, accounts,
                 isProfileModalOpen, cloud, submits, removes,
                 isApiKeyConfigured, priceClock, tickerPage, response,
                 parsed, cadToUsdRate, rateCalls, user, session, portfolio,
                 portfolioLoaded, isLoading, isSubmitting, error, db, now,
                 adds, cashCalls, refreshes, sweeps, syncs, deposited,
                 lastEvent>>

\* createAccount(name, type) up to its await; the button of AccountManager
\* is disabled while isSubmitting.
CreateAccount(name, type) ==
  /\ Screen = "Portfolio"
  /\ ~isSubmitting
  /\ Len(submits) < MaxSubmits
  /\ submits' = Append(submits, [op |-> "createAccount", name |-> name,
                                 type |-> type])
  /\ isSubmitting' = TRUE
  /\ error' = NoStr
  /\ UNCHANGED <<mounted, currentUser, isAuthLoading, subscriptions, accounts,
                 userProfile, isProfileModalOpen, cloud, removes,
                 isApiKeyConfigured, priceClock, tickerPage, response,
                 parsed, cadToUsdRate, rateCalls, user, session, portfolio,
                 portfolioLoaded, isLoading, db, now, adds, cashCalls,
                 refreshes, sweeps, syncs, deposited, lastEvent>>

\* addDoc of createAccount settles: the account is stored under a new id,
\* or the error is set; isSubmitting is cleared in either case.
CreateAccountDone(i, ok, id) ==
  /\ i \in 1..Len(submits)
  /\ submits[i].op = "createAccount"
  /\ IF ok
     THEN /\ id \in NewAccountIds \ DOMAIN cloud.accounts
          /\ cloud' = [cloud EXCEPT !.accounts =
                          (id :> [name |-> submits[i].name,
                                  type |-> submits[i].type]) @@ @]
          /\ UNCHANGED error
     ELSE /\ id = "none"
          /\ error' = SetState(error, "Failed to create account.")
          /\ UNCHANGED cloud
  /\ submits' = RemoveAt(submits, i)
  /\ isSubmitting' = SetState(isSubmitting, FALSE)
  /\ UNCHANGED <<mounted, currentUser, isAuthLoading, subscriptions, accounts,
                 userProfile, isProfileModalOpen, removes,
                 isApiKeyConfigured, priceClock, tickerPage, response,
                 parsed, cadToUsdRate, rateCalls, user, session, portfolio,
                 portfolioLoaded, isLoading, db, now, adds, cashCalls,
                 refreshes, sweeps, syncs, deposited, lastEvent>>

\* onOpenProfile of the Header, and onClose of the modal.
OpenProfile ==
  /\ Screen \in {"Portfolio", "TickerPage"}
  /\ ~isProfileModalOpen
  /\ isProfileModalOpen' = TRUE
  /\ UNCHANGED <<mounted, currentUser, isAuthLoading, subscriptions, accounts,
                 userProfile, cloud, submits, removes,
                 isApiKeyConfigured, priceClock, tickerPage, response,
                 parsed, cadToUsdRate, rateCalls, user, session, portfolio,
                 portfolioLoaded, isLoading, isSubmitting, error, db, now,
                 adds, cashCalls, refreshes, sweeps, syncs, deposited,
                 lastEvent>>

CloseProfile ==
  /\ Screen \in {"Portfolio", "TickerPage"}
  /\ isProfileModalOpen
  /\ isProfileModalOpen' = FALSE
  /\ UNCHANGED <<mounted, currentUser, isAuthLoading, subscriptions, accounts,
                 userProfile, cloud, submits, removes,
                 isApiKeyConfigured, priceClock, tickerPage, response,
                 parsed, cadToUsdRate, rateCalls, user, session, portfolio,
                 portfolioLoaded, isLoading, isSubmitting, error, db, now,
                 adds, cashCalls, refreshes, sweeps, syncs, deposited,
                 lastEvent>>

\* handleSave of the modal: const earnings = parseFloat(estimatedEarnings);
\* isNaN(earnings) || earnings < 0 ? 0 : earnings
EarningsOf(text) ==
  LET earnings == parseFloat(text) IN
  IF earnings = NaN \/ earnings < 0 THEN 0 ELSE earnings
EarningsTexts == {<< >>, <<"8", "0">>, <<"-", "7">>}

\* updateUserProfile(profileData) up to its await; the Save button of the
\* modal is disabled while isSubmitting.
UpdateUserProfile(text) ==
  /\ Screen \in {"Portfolio", "TickerPage"}
  /\ isProfileModalOpen
  /\ ~isSubmitting
  /\ Len(submits) < MaxSubmits
  /\ submits' = Append(submits, [op |-> "updateUserProfile",
                                 estimatedEarnings |-> EarningsOf(text)])
  /\ isSubmitting' = TRUE
  /\ error' = NoStr
  /\ UNCHANGED <<mounted, currentUser, isAuthLoading, subscriptions, accounts,
                 userProfile, isProfileModalOpen, cloud, removes,
                 isApiKeyConfigured, priceClock, tickerPage, response,
                 parsed, cadToUsdRate, rateCalls, user, session, portfolio,
                 portfolioLoaded, isLoading, db, now, adds, cashCalls,
                 refreshes, sweeps, syncs, deposited, lastEvent>>

\* setDoc(userDocRef, profileData, { merge: true }) settles: the document
\* is written and the modal closed, or the error is set; isSubmitting is
\* cleared in either case.
UpdateUserProfileDone(i, ok) ==
  /\ i \in 1..Len(submits)
  /\ submits[i].op = "updateUserProfile"
  /\ IF ok
     THEN /\ cloud' = [cloud EXCEPT !.profile =
                          [exists |-> TRUE,
                           estimatedEarnings |-> submits[i].estimatedEarnings]]
          /\ isProfileModalOpen' = SetState(isProfileModalOpen, FALSE)
          /\ UNCHANGED error
     ELSE /\ error' = SetState(error, "Failed to update profile.")
          /\ UNCHANGED <<cloud, isProfileModalOpen>>
  /\ submits' = RemoveAt(submits, i)
  /\ isSubmitting' = SetState(isSubmitting, FALSE)
  /\ UNCHANGED <<mounted, currentUser, isAuthLoading, subscriptions, accounts,
                 userProfile, removes,
                 isApiKeyConfigured, priceClock, tickerPage, response,
                 parsed, cadToUsdRate, rateCalls, user, session, portfolio,
                 portfolioLoaded, isLoading, db, now, adds, cashCalls,
                 refreshes, sweeps, syncs, deposited, lastEvent>>

\* --------------------------------------------------------- specification
Next ==
  \/ \E d \in TickSteps : Tick(d)
  \/ SignIn
  \/ SignOut
  \/ Snapshot
  \/ \E i \in 1..MaxDocs : ManualRefresh(i)
  \/ \E i \in 1..(MaxManual + MaxSessions), ok \in BOOLEAN, d \in DetailsResponses :
        RefreshResponse(i, ok, d)
  \/ \E i \in 1..(MaxManual + MaxSessions), ok \in BOOLEAN : RefreshWritten(i, ok)
  \/ \E s \in 1..MaxSessions : SweepTimer(s)
  \/ \E e \in Exchanges, a \in Accounts : AddAssetStart(e, a)
  \/ \E i \in 1..MaxAdds, kind \in {"throw", "null", "data"}, data \in FullResponses :
        AddAssetResponse(i, kind, data)
  \/ \E i \in 1..MaxAdds, ok \in BOOLEAN, id \in 0..MaxDocs : AddAssetWritten(i, ok, id)
  \/ \E a \in Accounts, m \in Amounts, c \in Currencies : AddCashStart(a, m, c)
  \/ \E i \in 1..MaxCashCalls, ok \in BOOLEAN, id \in 0..MaxDocs : AddCashDone(i, ok, id)
  \/ \E i \in 1..MaxDocs : RemoveAsset(i)
  \/ \E k \in 1..MaxRemoves, ok \in BOOLEAN : RemoveAssetDone(k, ok)
  \/ PriceTimer
  \/ \E i \in 1..MaxSyncs, ok \in BOOLEAN, items \in BatchResponses : PriceResponse(i, ok, items)
  \/ \E i \in 1..MaxSyncs, ok \in BOOLEAN : PriceCommit(i, ok)
  \/ \E text \in ResponseTexts : TextResponse(text)
  \/ \E op \in FetchOps : Parse(op)
  \/ OracleFailure
  \/ \E op \in FetchOps : FetchWithoutKey(op)
  \/ \E text \in RateTexts : RateResponse(text)
  \/ \E r \in Routes \cup {NoRoute} : Navigate(r)
  \/ \E l \in tickerPage.listeners : PageSnapshot(l)
  \/ \E l \in tickerPage.listeners : PageSnapshotError(l)
  \/ \E i \in 1..MaxPageCalls, ok \in BOOLEAN : DetailsResponse(i, ok)
  \/ AuthSignIn
  \/ AuthSignOut
  \/ AuthReady
  \/ \E l \in Listeners : ListenerError(l)
  \/ AccountsSnapshot
  \/ ProfileSnapshot
  \/ \E name \in {"A0", "A3"}, type \in AccountTypes : CreateAccount(name, type)
  \/ \E i \in 1..MaxSubmits, ok \in BOOLEAN, id \in NewAccountIds \cup {"none"} :
        CreateAccountDone(i, ok, id)
  \/ OpenProfile
  \/ CloseProfile
  \/ \E text \in EarningsTexts : UpdateUserProfile(text)
  \/ \E i \in 1..MaxSubmits, ok \in BOOLEAN : UpdateUserProfileDone(i, ok)

Spec == Init /\ [][Next]_vars

\* The rendered portfolio is the stored one and the price interval is not
\* yet due: the states in which the specifications of the price sync let
\* time pass (a refresh or a price sync may be in flight meanwhile).
Quiet ==
  /\ portfolio = SnapshotOf(db)
  /\ now < priceClock.armedAt + SixtySeconds

\* ------------------------------------------------- partial specifications
\* Holdings as addAsset stored them at time t.
StoredStock(ticker, exchange, accountId, t) ==
  NewAsset(FullData(ticker), 2, 8, exchange, accountId, t)

\* Adding stocks only, from an empty portfolio.
NextAddOnly ==
  \/ SignIn
  \/ Snapshot
  \/ AccountsSnapshot
  \/ \E a \in Accounts : AddAssetStart("USA", a)
  \/ \E i \in 1..MaxAdds, kind \in {"throw", "null", "data"}, data \in FullResponses :
        AddAssetResponse(i, kind, data)
  \/ \E i \in 1..MaxAdds, ok \in BOOLEAN :
        AddAssetWritten(i, ok, IF ok /\ FreeIds # {} THEN FirstFreeId ELSE 0)

SpecAddOnly == InitOver(<< >>) /\ [][NextAddOnly]_vars

\* Cash deposits into one account, from an empty portfolio.
NextCash ==
  \/ SignIn
  \/ Snapshot
  \/ AccountsSnapshot
  \/ \E m \in Amounts, c \in Currencies : AddCashStart("acc1", m, c)
  \/ \E i \in 1..MaxCashCalls, ok \in BOOLEAN, id \in 0..MaxDocs : AddCashDone(i, ok, id)

SpecCash == InitOver(<< >>) /\ [][NextCash]_vars

\* A portfolio of two holdings whose metrics are stale: one stored by the
\* previous version, one refreshed 25 hours before the start.
AddDb ==
  (1 :> LegacyStock)
  @@ (2 :> StoredStock("BBB", "USA", "acc2", StartTime - (TwentyFourHours + 3600)))

\* Adding a stock in the session that follows one whose sweep still runs:
\* the portfolio of the first session is delivered and starts the sweep, the
\* user signs out and in again, and the accounts of the second session are
\* delivered before its portfolio, so that the form can be submitted.
NextAdd ==
  \/ Tick(1)
  \/ SignIn
  \/ AuthSignOut
  \/ SignOut
  \/ AuthSignIn
  \/ Snapshot
  \/ AccountsSnapshot
  \/ AddAssetStart("USA", "acc1")
  \/ \E i \in 1..MaxAdds, kind \in {"null", "data"} :
        AddAssetResponse(i, kind, FullData("AAA"))
  \/ \E i \in 1..MaxAdds, ok \in BOOLEAN :
        AddAssetWritten(i, ok, IF ok /\ FreeIds # {} THEN FirstFreeId ELSE 0)
  \/ \E i \in 1..MaxSessions, ok \in BOOLEAN : RefreshResponse(i, ok, DetailsAll)
  \/ \E i \in 1..MaxSessions, ok \in BOOLEAN : RefreshWritten(i, ok)
  \/ \E s \in 1..MaxSessions : SweepTimer(s)

SpecAdd == InitOver(AddDb) /\ [][NextAdd]_vars

\* The staleness sweep over a portfolio of three holdings: one stored by the
\* previous version (no timestamp), one refreshed 12 hours and one 25 hours
\* before the start.  Half a day passes between sessions, a second while a
\* sweep waits for its timer.
SweepDb ==
  (1 :> LegacyStock)
  @@ (2 :> StoredStock("BBB", "USA", "acc1", StartTime - HalfDay))
  @@ (3 :> StoredStock("AAA", "Canada", "acc2", StartTime - (TwentyFourHours + 3600)))

NextSweep ==
  \/ Tick(1)
  \/ ~user /\ Tick(HalfDay)
  \/ SignIn
  \/ AuthSignOut
  \/ SignOut
  \/ Snapshot
  \/ AccountsSnapshot
  \/ \E i \in 1..MaxSessions, ok \in BOOLEAN : RefreshResponse(i, ok, DetailsAll)
  \/ \E i \in 1..MaxSessions, ok \in BOOLEAN : RefreshWritten(i, ok)
  \/ \E s \in 1..MaxSessions : SweepTimer(s)

SpecSweep == InitOver(SweepDb) /\ [][NextSweep]_vars

\* The sweep over two sessions: the user signs out while the sweep of the
\* session runs, and signs in again.  checkAndRefreshDetails has no
\* cancellation, so the sweep of the first session goes on, also when the
\* render of the delivered accounts and portfolio has unmounted App.
NextSweepSessions ==
  \/ Tick(1)
  \/ SignIn
  \/ AuthSignOut
  \/ SignOut
  \/ AuthSignIn
  \/ Snapshot
  \/ AccountsSnapshot
  \/ \E i \in 1..MaxSessions, ok \in BOOLEAN : RefreshResponse(i, ok, DetailsAll)
  \/ \E i \in 1..MaxSessions, ok \in BOOLEAN : RefreshWritten(i, ok)
  \/ \E s \in 1..MaxSessions : SweepTimer(s)

SpecSweepSessions == InitOver(SweepDb) /\ [][NextSweepSessions]_vars

\* The sweep of one session under the scheduling the event loop gives it:
\* time passes, a timer that is due fires, and a pending oracle or store
\* request settles (with a result or with a failure).
NextSweepRun ==
  \/ \E d \in TickSteps : Tick(d)
  \/ SignIn
  \/ Snapshot
  \/ AccountsSnapshot
  \/ \E i \in 1..MaxSessions, ok \in BOOLEAN : RefreshResponse(i, ok, DetailsAll)
  \/ \E i \in 1..MaxSessions, ok \in BOOLEAN : RefreshWritten(i, ok)
  \/ \E s \in 1..MaxSessions : SweepTimer(s)

FairSpecSweep ==
  /\ InitOver(SweepDb)
  /\ [][NextSweepRun]_vars
  /\ WF_vars(Tick(1))
  /\ WF_vars(\E i \in 1..MaxSessions, ok \in BOOLEAN : RefreshResponse(i, ok, DetailsAll))
  /\ WF_vars(\E i \in 1..MaxSessions, ok \in BOOLEAN : RefreshWritten(i, ok))
  /\ \A s \in 1..MaxSessions : WF_vars(SweepTimer(s))

\* A portfolio that holds the same stock in two accounts.
PriceDb ==
  (1 :> StoredStock("AAA", "USA", "acc1", StartTime - 60))
  @@ (2 :> StoredStock("AAA", "USA", "acc2", StartTime - 60))
  @@ (3 :> StoredStock("BBB", "USA", "acc1", StartTime - 60))

\* The response texts of the price syncs: one pair with a price, an unknown
\* ticker alone, an unknown ticker before a lowercase known one, and an
\* unparsable price before a parsable one.
PriceResponses ==
  {<<[ticker |-> "AAA", exchange |-> "USA", price |-> 15]>>,
   <<[ticker |-> "ZZZ", exchange |-> "USA", price |-> 18]>>,
   <<[ticker |-> "ZZZ", exchange |-> "USA", price |-> 18],
     [ticker |-> "bbb", exchange |-> "USA", price |-> 16]>>,
   <<[ticker |-> "BBB", exchange |-> "USA", price |-> NULL],
     [ticker |-> "AAA", exchange |-> "USA", price |-> 15]>>}

\* The same portfolio with the metrics of holding 1 refreshed 25 hours
\* before the start: the sweep of the session refreshes it.
StalePriceDb ==
  [PriceDb EXCEPT ![1].lastMetricsUpdate = StartTime - (TwentyFourHours + 3600)]

\* Price syncs while the sweep of the session refreshes holding 1.
NextPrice ==
  \/ SignIn
  \/ Snapshot
  \/ AccountsSnapshot
  \/ Quiet /\ Tick(HalfMinute)
  \/ PriceTimer
  \/ \E i \in 1..MaxSyncs, ok \in BOOLEAN, items \in PriceResponses : PriceResponse(i, ok, items)
  \/ \E i \in 1..MaxSyncs, ok \in BOOLEAN : PriceCommit(i, ok)
  \/ \E i \in 1..MaxSessions, ok \in BOOLEAN : RefreshResponse(i, ok, DetailsAll)
  \/ \E i \in 1..MaxSessions, ok \in BOOLEAN : RefreshWritten(i, ok)

SpecPrice == InitOver(StalePriceDb) /\ [][NextPrice]_vars

\* Portfolios of up to two stocks and a cash balance, stored now: stocks on
\* either exchange, bought for 8 or received for nothing, priced at 10 or
\* at 6.
SummaryStocks ==
  {NewAsset([FullData("AAA") EXCEPT !.currentPrice = price], 2, avgCost,
            exchange, "acc1", StartTime) :
      price \in {6, 10}, avgCost \in {0, 8}, exchange \in Exchanges}
SummaryCash == {NewCashAsset("acc1", m, c) : m \in Amounts, c \in Currencies}
SummaryDbs ==
  {<< >>}
  \cup {(1 :> a) : a \in SummaryStocks \cup SummaryCash}
  \cup {(1 :> a) @@ (2 :> c) : a \in SummaryStocks, c \in SummaryCash}
  \cup {(1 :> a) @@ (2 :> b) @@ (3 :> c) :
          a \in SummaryStocks, b \in SummaryStocks, c \in SummaryCash}

\* The summary of a loaded portfolio while the rate request is pending and
\* after it settled.
NextSummary ==
  \/ SignIn
  \/ AuthSignOut
  \/ SignOut
  \/ Snapshot
  \/ AccountsSnapshot
  \/ \E text \in RateTexts : RateResponse(text)

InitSummary == \E d \in SummaryDbs : InitOver(d)
SpecSummary == InitSummary /\ [][NextSummary]_vars
FairSpecSummary ==
  SpecSummary /\ WF_vars(\E text \in RateTexts : RateResponse(text))

\* The refreshes of the sweep of one session, the oracle answering with
\* every metric, with some, or with nothing parsable.
NextRefresh ==
  \/ Tick(1)
  \/ SignIn
  \/ Snapshot
  \/ AccountsSnapshot
  \/ \E i \in 1..MaxSessions, ok \in BOOLEAN, d \in DetailsResponses :
        RefreshResponse(i, ok, d)
  \/ \E i \in 1..MaxSessions, ok \in BOOLEAN : RefreshWritten(i, ok)
  \/ \E s \in 1..MaxSessions : SweepTimer(s)

SpecRefresh == InitOver(SweepDb) /\ [][NextRefresh]_vars

\* The price interval of a signed-in user over a stored portfolio, while
\* time passes and the committed prices come back as snapshots.
NextClock ==
  \/ SignIn
  \/ Snapshot
  \/ AccountsSnapshot
  \/ Tick(HalfMinute)
  \/ PriceTimer
  \/ \E i \in 1..MaxSyncs, ok \in BOOLEAN, items \in PriceResponses : PriceResponse(i, ok, items)
  \/ \E i \in 1..MaxSyncs, ok \in BOOLEAN : PriceCommit(i, ok)

SpecClock == InitOver(PriceDb) /\ [][NextClock]_vars

\* Sessions over a stored portfolio, its accounts and the user document:
\* the three listeners deliver or fail, accounts are created and the profile
\* is updated, and the user signs out while requests are pending.
NextSession ==
  \/ SignIn
  \/ AuthSignOut
  \/ SignOut
  \/ Snapshot
  \/ AccountsSnapshot
  \/ ProfileSnapshot
  \/ \E l \in Listeners : ListenerError(l)
  \/ \E text \in {<<"2">>, <<"x">>} : RateResponse(text)
  \/ \E type \in {"TFSA", "Margin"} : CreateAccount("A0", type)
  \/ \E i \in 1..MaxSubmits, ok \in BOOLEAN, id \in {"acc3", "none"} :
        CreateAccountDone(i, ok, id)
  \/ OpenProfile
  \/ CloseProfile
  \/ \E text \in EarningsTexts : UpdateUserProfile(text)
  \/ \E i \in 1..MaxSubmits, ok \in BOOLEAN : UpdateUserProfileDone(i, ok)

SpecSession == InitOver(PriceDb) /\ [][NextSession]_vars

\* The application with and without a configured API key: sessions over a
\* stored portfolio, and calls of the fetch operations.
ConfigTexts == {<< >>, << <<"peRatio", <<"7">> >> >>}

NextConfig ==
  \/ AuthReady
  \/ AuthSignIn
  \/ SignIn
  \/ AuthSignOut
  \/ SignOut
  \/ Snapshot
  \/ AccountsSnapshot
  \/ \E text \in RateTexts : RateResponse(text)
  \/ \E text \in ConfigTexts : TextResponse(text)
  \/ OracleFailure
  \/ \E op \in FetchOps : FetchWithoutKey(op)
  \/ \E op \in FetchOps : Parse(op)

InitConfig == \E key \in BOOLEAN, cu \in BOOLEAN : InitAuth(PriceDb, key, cu)
SpecConfig == InitConfig /\ [][NextConfig]_vars

\* The ticker page of a signed-in user who moves between the portfolio view
\* and the pages of a held and of an unheld ticker.
NextPage ==
  \/ SignIn
  \/ AuthSignOut
  \/ SignOut
  \/ Snapshot
  \/ AccountsSnapshot
  \/ \E r \in Routes \cup {NoRoute} : Navigate(r)
  \/ \E l \in tickerPage.listeners : PageSnapshot(l)
  \/ \E l \in tickerPage.listeners : PageSnapshotError(l)
  \/ \E i \in 1..MaxPageCalls, ok \in BOOLEAN : DetailsResponse(i, ok)

SpecPage == InitOver(PriceDb) /\ [][NextPage]_vars

\* The items of a price history: two well-formed pairs, a pair with a third
\* part, and the malformed ones (no date, a close that is no number, no
\* close, nothing at all).
HistoryItems ==
  {<<"d", ":", "9">>, <<"e", ":", "1", "2">>, <<"d", ":", "7", ":", "5">>,
   <<":", "9">>, <<"d", ":", "x">>, <<"d">>, << >>}
HistoryLists == UNION {[1..n -> HistoryItems] : n \in 1..MaxPairs}

\* Array.prototype.join(';')
RECURSIVE join(_)
join(items) ==
  IF Len(items) = 1 THEN items[1]
  ELSE items[1] \o <<";">> \o join(Tail(items))

\* A response with the essential fields and the price history of the items.
HistoryResponse(items) ==
  << <<"ticker", <<"a", "b">> >>, <<"name", <<"X">> >>,
     <<"currentPrice", <<"1", "2">> >>, <<"priceHistory", join(items)>> >>

\* fetchFullStockData and fetchTickerDetails over price histories.
NextHistory ==
  \/ \E items \in HistoryLists : TextResponse(HistoryResponse(items))
  \/ \E op \in {"fetchFullStockData", "fetchTickerDetails"} : Parse(op)

SpecHistory == InitOver(<< >>) /\ [][NextHistory]_vars

\* The fetch operations over the texts of the oracle.
NextParse ==
  \/ \E text \in ResponseTexts : TextResponse(text)
  \/ OracleFailure
  \/ \E op \in FetchOps : Parse(op)

SpecParse == InitOver(<< >>) /\ [][NextParse]_vars

\* ------------------------------------------------------------- properties
StockIds(d) == {i \in DOMAIN d : IsStock(d[i])}
CashIds(d, accountId, currency) ==
  {i \in DOMAIN d : IsCash(d[i]) /\ d[i].accountId = accountId
                    /\ d[i].currency = currency}

\* C1: the persisted portfolio never holds two stock holdings with the same
\* (ticker, exchange, accountId).
C1_NoDuplicateHolding ==
  \A i, j \in StockIds(db) :
     (/\ db[i].ticker = db[j].ticker
      /\ db[i].exchange = db[j].exchange
      /\ db[i].accountId = db[j].accountId) => i = j

\* C2: whenever no deposit is in flight, a cash record of an (account,
\* currency) that was deposited into holds the sum of the amounts of the
\* deposits completed into it.
C2_DepositsAdditive ==
  cashCalls = << >> =>
    \A a \in Accounts, c \in Currencies :
       deposited[<<a, c>>] > 0 =>
          \E i \in CashIds(db, a, c) : db[i].amount = deposited[<<a, c>>]

\* C3: the persisted portfolio holds at most one cash record per (accountId,
\* currency).
C3_OneCashRecord ==
  \A a \in Accounts, c \in Currencies : Cardinality(CashIds(db, a, c)) <= 1

Unavailable(details, f) ==
  IF f \in StrMetricFields THEN details[f] = NoStr ELSE details[f] = NULL

\* C4: a metrics refresh that is written leaves every metric field the oracle
\* reported as unavailable at its previously persisted value.
C4_RefreshKeepsKnownMetrics ==
  [][\A i \in 1..Len(refreshes) :
        (RefreshWritten(i, TRUE) /\ db' # db) =>
           \A f \in MetricFields :
              Unavailable(refreshes[i].details, f) =>
                 db'[refreshes[i].id][f] = db[refreshes[i].id][f]]_vars

\* The holdings of a sequence the claim calls stale at time t: no timestamp,
\* or a timestamp more than 24 hours before t.
QueuedByRule(assets, t) ==
  SelectSeq(assets, LAMBDA a : \/ a.lastMetricsUpdate = NULL
                               \/ t - a.lastMetricsUpdate > TwentyFourHours)

\* C5: the queue of every started sweep holds exactly the stock holdings of
\* its snapshot whose lastMetricsUpdate is absent or more than 24 hours
\* before the time the sweep started.
C5_QueueIsStaleSet ==
  \A s \in 1..MaxSessions :
     sweeps[s].pc # "idle" =>
        sweeps[s].queue = QueuedByRule(sweeps[s].input, sweeps[s].startedAt)

\* A sweep that started at the 24-hour boundary of one holding: the holding
\* without a timestamp and the one refreshed 37 hours ago are queued, the
\* one refreshed exactly 24 hours ago is not.
C5_Witness ==
  \E s \in 1..MaxSessions :
     /\ sweeps[s].startedAt = StartTime + HalfDay
     /\ Len(sweeps[s].input) = 3
     /\ Len(sweeps[s].queue) = 2
     /\ sweeps[s].queue[1].lastMetricsUpdate = NULL
     /\ sweeps[s].queue[2].lastMetricsUpdate < sweeps[s].startedAt - TwentyFourHours

SweepInFlight(s) == {k \in 1..Len(refreshes) : refreshes[k].origin = s}

\* The refresh calls in flight that a sweep issued, of whatever session.
SweepIssued == {k \in 1..Len(refreshes) : refreshes[k].origin # 0}

\* C6: at most one sweep-issued refresh call is in flight at any time, and a
\* call of a sweep after its first was issued at least one second after the
\* previous call of the sweep completed (with a result or with a failure).
C6_SweepSequential ==
  /\ Cardinality(SweepIssued) <= 1
  /\ \A s \in 1..MaxSessions : \A k \in SweepInFlight(s) :
        sweeps[s].idx > 1 =>
           refreshes[k].issuedAt >= sweeps[s].lastDone + StaggerDelay

\* The calls of one sweep are sequential: a sweep has at most one of its
\* own calls in flight, issued after the pause.
SweepSequentialWithinSweep ==
  \A s \in 1..MaxSessions :
     /\ Cardinality(SweepInFlight(s)) <= 1
     /\ \A k \in SweepInFlight(s) :
           sweeps[s].idx > 1 =>
              refreshes[k].issuedAt >= sweeps[s].lastDone + StaggerDelay

QueueIds(q) == [k \in 1..Len(q) |-> q[k].id]

\* C7: a sweep that ended has attempted every holding of its queue, whatever
\* failed on the way, and every started sweep ends.
C7_SweepIsolatesFailures ==
  /\ [](\A s \in 1..MaxSessions :
          sweeps[s].pc = "done" => sweeps[s].attempted = QueueIds(sweeps[s].queue))
  /\ \A s \in 1..MaxSessions :
        (sweeps[s].pc \in {"calling", "pausing"}) ~> (sweeps[s].pc = "done")

\* A sweep ended after the refresh of its first holding failed.
C7_Witness ==
  \E s \in 1..MaxSessions :
     /\ sweeps[s].pc = "done"
     /\ Len(sweeps[s].queue) >= 2
     /\ sweeps[s].failed
     /\ db[sweeps[s].queue[1].id].lastMetricsUpdate = sweeps[s].queue[1].lastMetricsUpdate

\* An item of a batch response names the pair of holding h.
ItemNames(item, h) ==
  ToUpperCase(item.ticker) = ToUpperCase(h.ticker) /\ item.exchange = h.exchange
InResponse(items, h) == \E k \in 1..Len(items) : ItemNames(items[k], h)

\* C8: a price sync that is committed gives every persisted holding of a pair
\* (T, E) the valid price the response has for that pair.
C8_EveryHoldingOfPairUpdated ==
  [][\A i \in 1..Len(syncs) :
        (PriceCommit(i, TRUE) /\ db' # db) =>
           \A k \in 1..Len(syncs[i].items), id \in StockIds(db') :
              (syncs[i].items[k].price # NULL /\ ItemNames(syncs[i].items[k], db'[id]))
                 => db'[id].currentPrice = syncs[i].items[k].price]_vars

\* C9: a price sync writes no holding whose pair is not in the response, adds
\* or removes no record and sets no error; a response of unmatched entries
\* only ends the sync without a write.
C9_PriceSyncFrame ==
  [][/\ \A i \in 1..Len(syncs), ok \in BOOLEAN :
           PriceCommit(i, ok) =>
              /\ DOMAIN db' = DOMAIN db
              /\ error' = error
              /\ \A id \in DOMAIN db :
                    ~InResponse(syncs[i].items, db[id]) => db'[id] = db[id]
     /\ \A i \in 1..Len(syncs), items \in PriceResponses :
           PriceResponse(i, TRUE, items) =>
              /\ db' = db
              /\ error' = error
              /\ (\A k \in 1..Len(items) :
                     \A id \in StockIds(db) : ~ItemNames(items[k], db[id]))
                 => Len(syncs') < Len(syncs)]_vars

\* A committed sync whose response named holding 3 and an unknown ticker:
\* holding 3 has the new price, holding 1 still has the price it was stored
\* with.
C9_Witness ==
  /\ lastEvent.op = "priceSync"
  /\ \E k \in 1..Len(lastEvent.items) : lastEvent.items[k].ticker = "ZZZ"
  /\ ~InResponse(lastEvent.items, db[1])
  /\ db[1].currentPrice = 10
  /\ db[3].currentPrice = 16

PriceFields == {"currentPrice", "lastPriceUpdate"}

\* C10: a price sync changes no field of a holding other than currentPrice
\* and lastPriceUpdate, and a metrics refresh changes neither of these two.
C10_DisjointFields ==
  [][/\ \A i \in 1..Len(syncs), ok \in BOOLEAN :
           PriceCommit(i, ok) =>
              \A id \in DOMAIN db : \A f \in DOMAIN db[id] \ PriceFields :
                 db'[id][f] = db[id][f]
     /\ \A i \in 1..Len(refreshes), ok \in BOOLEAN :
           RefreshWritten(i, ok) =>
              \A id \in DOMAIN db : \A f \in PriceFields :
                 db'[id][f] = db[id][f]]_vars

\* Holding 1 after a price sync and a metrics refresh that were in flight
\* together: it carries the synced price and the refreshed metrics.
C10_Witness ==
  /\ db[1].currentPrice = 15
  /\ db[1].lastPriceUpdate = StartTime + SixtySeconds
  /\ db[1].peRatio = 30
  /\ db[1].lastMetricsUpdate = StartTime + SixtySeconds

\* The well-formed pairs of a response text whose key is k in some letter
\* case, and what the response says for k.
PairsOf(text, k) ==
  {i \in 1..Len(text) :
      Len(text[i]) = 2 /\ \E sp \in Spellings : text[i][1] = KeySpelling[sp][k]}
NAForms == {<<"N", "/", "A">>, <<"N", "/", "a">>, <<"n", "/", "A">>, <<"n", "/", "a">>}
SaysText(text, k) ==
  \E i \in PairsOf(text, k) :
     /\ \A j \in PairsOf(text, k) : j <= i
     /\ trim(text[i][2]) # << >>
     /\ trim(text[i][2]) \notin NAForms
SaysNumber(text, k) ==
  \E i \in PairsOf(text, k) :
     /\ \A j \in PairsOf(text, k) : j <= i
     /\ trim(text[i][2]) \notin NAForms
     /\ LET digits == replaceCommas(trim(text[i][2])) IN
           digits # << >> /\ digits[1] \in DOMAIN DigitValue
SaysEssentials(text) ==
  SaysText(text, "ticker") /\ SaysText(text, "name")
  /\ SaysNumber(text, "currentprice")

\* C11: fetchFullStockData returns no data for every response that lacks a
\* ticker, a name or a numeric current price (no such key, "N/A", or a price
\* that is no number), whatever its other fields say, and returns a record,
\* with all three set, for every other response.
C11_EssentialFieldGate ==
  (parsed.op = "fetchFullStockData" /\ response # << >>) =>
     /\ parsed.value = NoData <=> ~SaysEssentials(response)
     /\ parsed.value # NoData =>
           /\ parsed.value.ticker # NoText
           /\ parsed.value.name # NoText
           /\ parsed.value.currentPrice # NULL

\* No data for a response with a ticker, a name, a P/E ratio and a market
\* capitalisation whose price is the text "x".
C11_Witness ==
  /\ parsed.op = "fetchFullStockData"
  /\ parsed.value = NoData
  /\ SaysText(response, "ticker")
  /\ SaysText(response, "name")
  /\ SaysNumber(response, "peratio")
  /\ SaysText(response, "marketcap")
  /\ \E i \in PairsOf(response, "currentprice") : response[i][2] = <<"x">>

SaysNA(text, k) ==
  \E i \in PairsOf(text, k) :
     /\ \A j \in PairsOf(text, k) : j <= i
     /\ trim(text[i][2]) \in NAForms
FieldOf ==
  [ticker |-> "ticker", name |-> "name", currentprice |-> "currentPrice",
   peratio |-> "peRatio", marketcap |-> "marketCap"]
TextKeys == {"ticker", "name", "marketcap"}
NumberKeys == {"currentprice", "peratio"}
Returned(f) == parsed.value # NoData /\ parsed.value # Threw /\ f \in DOMAIN parsed.value

\* C13: in the record a parser returns, every field for which the response
\* says "N/A" (in any letter case) is null, and is never the text "N/A".
C13_NotAvailableIsNull ==
  parsed.op \in FetchOps =>
     /\ \A k \in TextKeys :
           (SaysNA(response, k) /\ Returned(FieldOf[k])) =>
              parsed.value[FieldOf[k]] = NoText
     /\ \A k \in NumberKeys :
           (SaysNA(response, k) /\ Returned(FieldOf[k])) =>
              parsed.value[FieldOf[k]] = NULL

\* The response with the commas taken out of the values of its numeric keys.
WithoutSeparators(text) ==
  [i \in 1..Len(text) |->
     IF \E k \in NumberKeys : i \in PairsOf(text, k)
     THEN <<text[i][1], replaceCommas(text[i][2])>>
     ELSE text[i]]
\* The response says for k a text that is no number and not "N/A".
SaysNoNumber(text, k) ==
  \E i \in PairsOf(text, k) :
     /\ \A j \in PairsOf(text, k) : j <= i
     /\ trim(text[i][2]) # << >>
     /\ trim(text[i][2]) \notin NAForms
     /\ ~SaysNumber(text, k)

\* C14: every parser returns for a response whose numbers are written with
\* thousands separators what it returns for the response without them, and
\* returns null, without throwing, for a numeric field whose value is no
\* number.
C14_SeparatorsAndNonNumbers ==
  parsed.op \in FetchOps =>
     /\ Fetch(parsed.op, WithoutSeparators(response)) = parsed.value
     /\ response # << >> => parsed.value # Threw
     /\ \A k \in NumberKeys :
           (SaysNoNumber(response, k) /\ Returned(FieldOf[k])) =>
              parsed.value[FieldOf[k]] = NULL

\* The response with its keys written in the letter case sp.
Respelled(text, sp) ==
  [i \in 1..Len(text) |->
     <<KeySpelling[sp][toLowerCaseKey(text[i][1])]>> \o Tail(text[i])]

\* C15: every parser returns the same for two responses that differ only in
\* the letter case of their keys.
C15_KeysCaseInsensitive ==
  parsed.op \in FetchOps =>
     \A sp \in Spellings :
        Fetch(parsed.op, Respelled(response, sp)) = parsed.value

\* The sums of the claim over the holdings ids of a portfolio: over the
\* stocks, shares * (the price field) * f, and over the cash, amount * g.
RECURSIVE StockSum(_, _, _, _)
StockSum(assets, ids, field, r) ==
  IF ids = {} THEN 0
  ELSE LET i == CHOOSE x \in ids : TRUE
           f == IF assets[i].exchange = "Canada" THEN r ELSE 1
       IN (IF assets[i].type = "Stock"
           THEN assets[i].shares * assets[i][field] * f ELSE 0)
          + StockSum(assets, ids \ {i}, field, r)
RECURSIVE CashSum(_, _, _)
CashSum(assets, ids, r) ==
  IF ids = {} THEN 0
  ELSE LET i == CHOOSE x \in ids : TRUE
           g == IF assets[i].currency = "CAD" THEN r ELSE 1
       IN (IF assets[i].type = "Cash" THEN assets[i].amount * g ELSE 0)
          + CashSum(assets, ids \ {i}, r)

\* C16: the summary of the portfolio under rate r (1 when the rate is null)
\* has totalMarketValue = sum over stocks of shares*currentPrice*f + sum over
\* cash of amount*g, totalCost = sum over stocks of shares*avgCost*f + the
\* same cash sum, and totalGainLoss = totalMarketValue - totalCost, with f = r
\* for a Canada stock, g = r for CAD cash, and 1 otherwise; a portfolio of
\* cash only has gain/loss 0.
C16_SummarySums ==
  LET r == IF cadToUsdRate = NULL THEN 1 ELSE cadToUsdRate
      ids == 1..Len(portfolio)
      summary == totalPortfolioSummary
  IN /\ summary.totalMarketValue =
           StockSum(portfolio, ids, "currentPrice", r) + CashSum(portfolio, ids, r)
     /\ summary.totalCost =
           StockSum(portfolio, ids, "avgCost", r) + CashSum(portfolio, ids, r)
     /\ summary.totalGainLoss = summary.totalMarketValue - summary.totalCost
     /\ (\A i \in ids : portfolio[i].type = "Cash") => summary.totalGainLoss = 0

\* A portfolio of a Canada stock, a USA stock and CAD cash, summarised under
\* the fetched rate 2.
C16_Witness ==
  /\ cadToUsdRate = 2
  /\ Len(portfolio) = 3
  /\ portfolio[1].exchange = "Canada" /\ portfolio[1].avgCost = 8
  /\ portfolio[2].exchange = "USA" /\ portfolio[2].currentPrice = 6
  /\ portfolio[3].currency = "CAD"
  /\ totalPortfolioSummary.totalGainLoss # 0

\* C17: the summary of a portfolio whose total cost is 0, the empty one
\* included, has overallReturn 0, and so has the row of a stock whose cost
\* is 0; neither holds the result of a division by zero.
C17_ZeroCostGuard ==
  /\ totalPortfolioSummary.totalCost = 0 => totalPortfolioSummary.overallReturn = 0
  /\ totalPortfolioSummary.overallReturn # NotFinite
  /\ \A i \in 1..Len(portfolio) :
        portfolio[i].type = "Stock" =>
           /\ portfolio[i].shares * portfolio[i].avgCost = 0
                 => gainLossPercent(portfolio[i]) = 0
           /\ gainLossPercent(portfolio[i]) # NotFinite

\* A loaded portfolio of one stock received for nothing: its market value is
\* positive, its cost and its return are 0.
C17_Witness ==
  /\ Len(portfolio) = 1
  /\ portfolio[1].type = "Stock"
  /\ portfolio[1].avgCost = 0
  /\ totalPortfolioSummary.totalMarketValue > 0
  /\ totalPortfolioSummary.totalCost = 0
  /\ totalPortfolioSummary.overallReturn = 0

\* While the rate is null the summary is the one under factor 1, a
\* signed-in session without a rate has its request pending, and that
\* session gets a rate (or ends).
RateNeverBlocks ==
  /\ [](cadToUsdRate = NULL =>
          LET ids == 1..Len(portfolio) IN
          /\ totalPortfolioSummary.totalMarketValue =
                StockSum(portfolio, ids, "currentPrice", 1) + CashSum(portfolio, ids, 1)
          /\ totalPortfolioSummary.totalCost =
                StockSum(portfolio, ids, "avgCost", 1) + CashSum(portfolio, ids, 1))
  /\ []((user /\ cadToUsdRate = NULL) => rateCalls > 0)
  /\ (user /\ cadToUsdRate = NULL) ~> (~user \/ cadToUsdRate # NULL)

NothingParsable(details) ==
  /\ \A f \in MetricFields : Unavailable(details, f)
  /\ details.priceHistory = << >>

\* C19: a metrics refresh whose response had no parsable metric leaves the
\* persisted holding as it was: its metric fields, its price history and its
\* lastMetricsUpdate.
C19_MalformedRefreshWritesNothing ==
  [][\A i \in 1..Len(refreshes), ok \in BOOLEAN :
        (RefreshWritten(i, ok) /\ NothingParsable(refreshes[i].details)) =>
           db' = db]_vars

\* C20: a refresh call of a sweep that fails, at the oracle or at the write,
\* leaves the error state as it was and leaves the add-asset form enabled.
C20_SweepFailureOnlyLogged ==
  [][\A i \in 1..Len(refreshes) :
        (/\ refreshes[i].origin # 0
         /\ \/ RefreshResponse(i, FALSE, DetailsAll)
            \/ RefreshWritten(i, FALSE)) =>
           /\ error' = error
           /\ isLoading' = FALSE]_vars

\* C21: what a fetch operation reports when the oracle call failed differs
\* from what it reports for an empty response.
C21_EmptyDistinctFromFailure ==
  (parsed.op \in FetchOps /\ parsed.oracle = "rejected") =>
     parsed.value # FetchOutcome(parsed.op, [kind |-> "text", text |-> << >>])

\* C22: without a configured API key no user is ever delivered, nothing is
\* loaded, none of the portfolio, accounts and user profile listeners is
\* subscribed, no request to the oracle is in flight or was answered, every
\* fetch operation that was called returned null, and the configuration
\* error is on the screen.
C22_NoKeyNoRequests ==
  ~isApiKeyConfigured =>
     /\ ~user /\ session = 0
     /\ portfolio = << >> /\ ~portfolioLoaded /\ cadToUsdRate = NULL
     /\ subscriptions = {} /\ tickerPage.listeners = {}
     /\ rateCalls = 0 /\ adds = << >> /\ refreshes = << >> /\ syncs = << >>
     /\ cashCalls = << >> /\ tickerPage.calls = << >>
     /\ parsed.op \notin {"text", "rejected"}
     /\ parsed.op \in FetchOps => (parsed.value = NoData /\ parsed.oracle = "none")
     /\ Screen = "Configuration Error"

\* fetchTickerDetails was called without a key and returned null.
C22_Witness ==
  /\ ~isApiKeyConfigured
  /\ parsed.op = "fetchTickerDetails"
  /\ parsed.value = NoData
  /\ db = PriceDb


\* The (ticker, exchange) of a listener, a call or a holding.
PairOf(x) == [ticker |-> x.ticker, exchange |-> x.exchange]

\* C23: when the ticker detail view is left, or its ticker/exchange changes,
\* the portfolio listener of the previous view is unsubscribed: the only
\* listener that remains is the one of the view that is displayed, and the
\* holding the view shows is never one delivered for another ticker.
C23_PreviousListenerUnsubscribed ==
  /\ \A l \in tickerPage.listeners :
        tickerPage.mounted /\ PairOf(l) = tickerPage.route
  /\ tickerPage.asset # NoAsset => PairOf(tickerPage.asset) = tickerPage.route

\* The view of ZZZ was replaced by the view of AAA, whose listener has
\* delivered the holding, while the call started for ZZZ is still in flight.
C23_Witness ==
  /\ tickerPage.mounted
  /\ tickerPage.route = [ticker |-> "AAA", exchange |-> "USA"]
  /\ tickerPage.asset # NoAsset
  /\ Cardinality(tickerPage.listeners) = 1
  /\ \E i \in 1..Len(tickerPage.calls) : tickerPage.calls[i].ticker = "ZZZ"


\* C29: the details held by the ticker detail view always belong to the
\* displayed (ticker, exchange): the result of a call started for another
\* ticker is never stored as details.
C29_DetailsOfCurrentTicker ==
  tickerPage.details # NoDetails => tickerPage.details.of = tickerPage.route


\* C25: while a user is signed in and the portfolio holds a stock, a batched
\* price fetch is issued once every 60 seconds whatever snapshots arrive in
\* between: while the interval stays set, the time of the next fetch moves
\* only when a fetch is issued.
C25_SnapshotsDoNotPostponeFetch ==
  [][(/\ priceClock.armedAt # NULL
      /\ priceClock'.armedAt # NULL
      /\ syncs' = syncs)
     => priceClock'.armedAt = priceClock.armedAt]_vars


\* C26: the staleness sweep is started at most once per signed-in session:
\* a sweep starts only from the first snapshot with holdings of its session,
\* over the stocks of that snapshot, and once started its start time, input
\* and stale set are never replaced by a later snapshot.
C26_SweepStartedOncePerSession ==
  [][\A s \in 1..MaxSessions :
       /\ sweeps[s].startedAt # NULL =>
             /\ sweeps'[s].startedAt = sweeps[s].startedAt
             /\ sweeps'[s].input = sweeps[s].input
             /\ sweeps'[s].queue = sweeps[s].queue
       /\ (sweeps[s].startedAt = NULL /\ sweeps'[s].startedAt # NULL) =>
             /\ user /\ s = session
             /\ ~portfolioLoaded /\ portfolioLoaded'
             /\ portfolio = << >>
             /\ sweeps'[s].input = SelectSeq(portfolio', IsStock)
             /\ sweeps'[s].startedAt = now]_vars

\* The sweep of the session has refreshed a holding, and the snapshot with
\* the refreshed holding was delivered afterwards.
C26_Witness ==
  /\ user
  /\ sweeps[session].startedAt # NULL
  /\ portfolio # << >>
  /\ SelectSeq(portfolio, IsStock) # sweeps[session].input


\* The pair an item of a price history stands for, read without the parser:
\* the text before its first colon is the date, the digits after the colon
\* are the close; no pair when either is missing.
PairOfItem ==
  (<<"d", ":", "9">> :> <<[date |-> <<"d">>, close |-> 9]>>)
  @@ (<<"e", ":", "1", "2">> :> <<[date |-> <<"e">>, close |-> 12]>>)
  @@ (<<"d", ":", "7", ":", "5">> :> <<[date |-> <<"d">>, close |-> 7]>>)
  @@ (<<":", "9">> :> << >>)
  @@ (<<"d", ":", "x">> :> << >>)
  @@ (<<"d">> :> << >>)
  @@ (<< >> :> << >>)
RECURSIVE PairsOfItems(_)
PairsOfItems(items) ==
  IF items = << >> THEN << >>
  ELSE PairOfItem[Head(items)] \o PairsOfItems(Tail(items))

\* C27: close-only series parsing returns, in their original order, exactly
\* the (date, close) pairs of the semicolon-separated input that have a
\* non-empty date and a numeric close; malformed pairs are dropped without
\* an error and without affecting the other pairs.
C27_CloseOnlySeries ==
  parsed.op \in {"fetchFullStockData", "fetchTickerDetails"} =>
     \A items \in HistoryLists :
        response = HistoryResponse(items) =>
           /\ "priceHistory" \in DOMAIN parsed.value
           /\ parsed.value.priceHistory = PairsOfItems(items)

\* A history with a malformed pair between two well-formed ones was parsed:
\* the two come out in their order.
C27_Witness ==
  /\ parsed.op = "fetchTickerDetails"
  /\ response = HistoryResponse(<< <<"e", ":", "1", "2">>, <<":", "9">>,
                                   <<"d", ":", "9">> >>)
  /\ parsed.value.priceHistory =
        <<[date |-> <<"e">>, close |-> 12], [date |-> <<"d">>, close |-> 9]>>


\* C28: while an addAsset call is in flight, isLoading stays true, so the
\* add form stays disabled and no second addAsset is in flight with it.
C28_LoadingWhileAdding ==
  adds # << >> => (isLoading /\ ~FormEnabled /\ Len(adds) = 1)


\* C30: while no user is signed in, the three listeners are unsubscribed,
\* the in-memory portfolio and accounts are empty and the user profile and
\* the exchange rate are null: nothing started during the previous session
\* repopulates them.
C30_SignedOutStateIsEmpty ==
  ~user => /\ subscriptions = {}
           /\ portfolio = << >> /\ ~portfolioLoaded
           /\ accounts = << >>
           /\ userProfile = NoUserProfile
           /\ cadToUsdRate = NULL

====
